---- MODULE Spec2Model ----
(***************************************************************************)
(* flexiManage: device service, tunnel service, dhcp job handlers and the  *)
(* device validators, as a state machine over the persisted documents,     *)
(* the connection registry and the per-device job queue.                   *)
(***************************************************************************)
EXTENDS Integers, Sequences, FiniteSets, TLC

(* ---------------------------------------------------------------------- *)
(* Bounds                                                                  *)
(* ---------------------------------------------------------------------- *)
\* number of jobs the queue ever holds
MaxJobs == 2
\* number of ObjectIds handed out to new sub-documents
MaxIds == 2

Devices == {"d1", "d2"}
Tunnels == {"t1", "t2"}

\* ObjectIds of the static routes that exist from the start; new
\* sub-documents get the ids above them
RouteIdOf(d) == IF d = "d1" THEN 1 ELSE 2
\* the id of the DHCP entry a device may hold from the start
SeedDhcpId == Cardinality(Devices) + 1
FirstFreeId == SeedDhcpId + 1

(* ---------------------------------------------------------------------- *)
(* Small helpers over arrays                                               *)
(* ---------------------------------------------------------------------- *)
Range(s) == { s[i] : i \in DOMAIN s }

\* IPv4 addresses are dotted quads; the empty string is the empty tuple
IP(a, b, c, d) == <<a, b, c, d>>
NoIP == <<>>

VARIABLES
  devices,      \* devices collection: device id -> document, or NoDoc
  tunnels,      \* tunnels collection: tunnel id -> document
  connected,    \* connection registry: machine id -> channel open
  registered,   \* flexibilling: registered-device count of the account
  jobs,         \* device job queue: job id (index) -> job
  nextId,       \* next ObjectId for a new sub-document
  resp,         \* the response of the last request
  sent,         \* the messages sent to devices over their channels
  calls         \* requests in progress: caller -> position and local values

vars == <<devices, tunnels, connected, registered, jobs, nextId, resp, sent, calls>>

NoDoc == [exists |-> FALSE]

Exists(db, id) == db[id].exists

(* ---------------------------------------------------------------------- *)
(* Initial documents                                                       *)
(* ---------------------------------------------------------------------- *)
InitInterfaces(d) ==
  LET n == IF d = "d1" THEN 1 ELSE 2 IN
  << [_id |-> d \o "-if0", pciaddr |-> "pci0", isAssigned |-> TRUE, type |-> "WAN",
      IPv4 |-> IP(100, 64, n, 2), IPv4Mask |-> "24", gateway |-> IP(100, 64, n, 1),
      routing |-> "NONE", pathlabels |-> {"green", "red"}, dhcp |-> "no", modified |-> FALSE],
     [_id |-> d \o "-if1", pciaddr |-> "pci1", isAssigned |-> TRUE, type |-> "LAN",
      IPv4 |-> IP(10, 0, n, 1), IPv4Mask |-> "24", gateway |-> NoIP,
      routing |-> "OSPF", pathlabels |-> {}, dhcp |-> "no", modified |-> FALSE],
     [_id |-> d \o "-if2", pciaddr |-> "pci2", isAssigned |-> FALSE, type |-> "LAN",
      IPv4 |-> IP(10, 1, n, 1), IPv4Mask |-> "24", gateway |-> NoIP,
      routing |-> "OSPF", pathlabels |-> {}, dhcp |-> "no", modified |-> FALSE] >>

\* a DHCP entry stored before the first request (written with the device
\* document), in the status seed
SeedDhcp(seed) ==
  IF seed = "none" THEN <<>>
  ELSE << [_id |-> SeedDhcpId, interface |-> "pci1", rangeStart |-> "10.0.1.2",
           rangeEnd |-> "10.0.1.20", dns |-> <<"8.8.8.8">>,
           macAssign |-> <<>>, status |-> seed] >>

\* dates are numbers; no upgrade is scheduled at the start
NoDate == 0

InitDevice(d, approved, agent, seed, route) ==
  [exists |-> TRUE, name |-> d, isApproved |-> approved,
   versions |-> [agent |-> <<agent, 0, 0>>],
   interfaces |-> InitInterfaces(d),
   staticroutes |-> << [_id |-> RouteIdOf(d), status |-> route] >>,
   dhcp |-> SeedDhcp(seed),
   upgradeSchedule |-> [time |-> NoDate, jobQueued |-> FALSE]]

AgentVersions == {0, 1, 2}
SeedStatuses == {"none", "complete", "add-failed", "remove-failed"}
\* the statuses a stored static route may be in
RouteStatuses == {"complete", "add-wait", "add-failed"}

NoResponse == [op |-> "none", id |-> "none", code |-> 0]

\* the requests that may be in progress at the same time; none at the start
Callers == {"c1", "c2"}
Idle == [pc |-> "idle"]
NoCalls == [c \in Callers |-> Idle]

\* the two tunnels between the devices, one per path label
InitTunnels(active) ==
  [t \in Tunnels |->
     [deviceA |-> IF t = "t1" THEN "d1" ELSE "d2",
      deviceB |-> IF t = "t1" THEN "d2" ELSE "d1",
      interfaceA |-> IF t = "t1" THEN "d1-if0" ELSE "d2-if0",
      interfaceB |-> IF t = "t1" THEN "d2-if0" ELSE "d1-if0",
      pathlabel |-> IF t = "t1" THEN "green" ELSE "red", isActive |-> active]]

InitWith(agents, seeds, conns, routes) ==
  /\ \E ag \in agents, seed \in seeds, route \in routes :
       devices = [d \in Devices |->
                    IF d = "d1" THEN InitDevice(d, TRUE, ag, seed, route)
                    ELSE InitDevice(d, FALSE, 1, "none", "complete")]
  /\ tunnels = InitTunnels(TRUE)
  /\ connected \in conns
  /\ registered = Cardinality(Devices)
  /\ jobs = <<>>
  /\ nextId = FirstFreeId
  /\ resp = NoResponse
  /\ sent = <<>>
  /\ calls = NoCalls

\* the values an interface may have been stored with: ifc itself and ifc
\* with one field changed; the addresses are inside the first LAN of d1,
\* the LAN of d2 itself, and inside the LAN of d2
InterfaceVariants(ifc) ==
  { ifc,
    [ifc EXCEPT !.isAssigned = ~@],
    [ifc EXCEPT !.type = IF @ = "WAN" THEN "LAN" ELSE "WAN"],
    [ifc EXCEPT !.type = ""],
    [ifc EXCEPT !.IPv4 = NoIP],
    [ifc EXCEPT !.IPv4Mask = ""],
    [ifc EXCEPT !.gateway = IF @ = NoIP THEN IP(100, 64, 1, 1) ELSE NoIP],
    [ifc EXCEPT !.routing = IF @ = "OSPF" THEN "NONE" ELSE "OSPF"],
    [ifc EXCEPT !.pathlabels = IF @ = {} THEN {"green"} ELSE {}],
    [ifc EXCEPT !.isAssigned = TRUE, !.IPv4 = IP(10, 0, 1, 129), !.IPv4Mask = "25"],
    [ifc EXCEPT !.isAssigned = TRUE, !.IPv4 = IP(10, 0, 2, 1), !.IPv4Mask = "24"],
    [ifc EXCEPT !.isAssigned = TRUE, !.IPv4 = IP(10, 0, 2, 129), !.IPv4Mask = "25"] }

\* the devices as they may have been registered: the WAN interface of d1,
\* or its two LAN interfaces, are drawn from their variants; no tunnel is
\* active and no job is queued
InitValidator ==
  /\ \E a \in InterfaceVariants(InitInterfaces("d1")[1]),
        b \in InterfaceVariants(InitInterfaces("d1")[2]),
        c \in InterfaceVariants(InitInterfaces("d1")[3]) :
       /\ a = InitInterfaces("d1")[1]
            \/ (b = InitInterfaces("d1")[2] /\ c = InitInterfaces("d1")[3])
       /\ devices = [d \in Devices |->
                    IF d = "d1"
                    THEN [InitDevice(d, TRUE, 1, "none", "complete") EXCEPT
                            !.interfaces = <<a, b, c>>]
                    ELSE InitDevice(d, FALSE, 1, "none", "complete")]
  /\ tunnels = InitTunnels(FALSE)
  /\ connected = [d \in Devices |-> FALSE]
  /\ registered = Cardinality(Devices)
  /\ jobs = <<>>
  /\ nextId = FirstFreeId
  /\ resp = NoResponse
  /\ sent = <<>>
  /\ calls = NoCalls

Init == InitWith(AgentVersions, SeedStatuses, [Devices -> BOOLEAN], RouteStatuses)

(* ---------------------------------------------------------------------- *)
(* validators.js                                                           *)
(* ---------------------------------------------------------------------- *)
\* net.isIPv4
isIPv4(ip) == Len(ip) = 4 /\ \A i \in 1..4 : ip[i] \in 0..255

\* numeric value of a prefix length given as a string; 33 when not a number
MaskStrings == [n \in 0..32 |-> ToString(n)]

MaskNum(m) ==
  IF \E n \in 0..32 : MaskStrings[n] = m
  THEN CHOOSE n \in 0..32 : MaskStrings[n] = m
  ELSE 33

IPNum(ip) == ((ip[1] * 256 + ip[2]) * 256 + ip[3]) * 256 + ip[4]

\* a subnet is the string `${IPv4}/${IPv4Mask}`; kept as the pair
Subnet(ip, mask) == [ip |-> ip, mask |-> mask]
SubnetSize(sn) == 2 ^ (32 - MaskNum(sn.mask))
SubnetStart(sn) == IPNum(sn.ip) - (IPNum(sn.ip) % SubnetSize(sn))
SubnetEnd(sn) == SubnetStart(sn) + SubnetSize(sn) - 1

\* cidr.overlap of cidr-tools: the two address ranges intersect
cidrOverlap(a, b) ==
  /\ SubnetStart(a) <= SubnetEnd(b)
  /\ SubnetStart(b) <= SubnetEnd(a)

\* cidr-tools parses the subnet: an IPv4 address and a prefix length
Parsable(sn) == isIPv4(sn.ip) /\ MaskNum(sn.mask) <= 32

Valid == [valid |-> TRUE, err |-> ""]
Invalid(e) == [valid |-> FALSE, err |-> e]

\* the per-interface checks without the gateway check of a WAN interface
IfcError_NoWanGateway(ifc) ==
  IF ifc.type \notin {"WAN", "LAN"} THEN "Invalid interface type"
  ELSE IF ~isIPv4(ifc.IPv4) \/ ifc.IPv4Mask = "" THEN "Interface does not have an IP address"
  ELSE IF ifc.type = "LAN" /\ ifc.pathlabels # {}
       THEN "Path Labels are not allowed on LAN interfaces"
  ELSE IF ifc.type = "LAN" /\ ifc.gateway # NoIP
       THEN "LAN interfaces should not be assigned a default GW"
  ELSE IF ifc.type = "WAN" /\ ifc.routing = "OSPF"
       THEN "OSPF should not be configured on WAN interface"
  ELSE ""

\* the per-interface checks of the loop over the assigned interfaces
IfcError(ifc) ==
  IF ifc.type \notin {"WAN", "LAN"} THEN "Invalid interface type"
  ELSE IF ~isIPv4(ifc.IPv4) \/ ifc.IPv4Mask = "" THEN "Interface does not have an IP address"
  ELSE IF ifc.type = "LAN" /\ ifc.pathlabels # {}
       THEN "Path Labels are not allowed on LAN interfaces"
  ELSE IF ifc.type = "LAN" /\ ifc.gateway # NoIP
       THEN "LAN interfaces should not be assigned a default GW"
  ELSE IF ifc.type = "WAN" /\ ifc.routing = "OSPF"
       THEN "OSPF should not be configured on WAN interface"
  ELSE IF ifc.type = "WAN" /\ ~isIPv4(ifc.gateway)
       THEN "All WAN interfaces should be assigned a default GW"
  ELSE ""

validateDevice(device, checkOverlap, organizationLanSubnets) ==
  LET interfaces  == device.interfaces
      assignedIfs == SelectSeq(interfaces, LAMBDA ifc : ifc.isAssigned)
      wanIfcs     == SelectSeq(assignedIfs, LAMBDA ifc : ifc.type = "WAN")
      lanIfcs     == SelectSeq(assignedIfs, LAMBDA ifc : ifc.type = "LAN")
      bad         == { i \in DOMAIN assignedIfs : IfcError(assignedIfs[i]) # "" }
      first       == CHOOSE i \in bad : \A k \in bad : i <= k
  IN
  IF Len(assignedIfs) < 2 \/ Len(wanIfcs) = 0 \/ Len(lanIfcs) = 0
  THEN Invalid("There should be at least one LAN and one WAN interfaces")
  ELSE IF bad # {} THEN Invalid(IfcError(assignedIfs[first]))
  ELSE IF \E w \in DOMAIN wanIfcs, l \in DOMAIN lanIfcs :
            cidrOverlap(Subnet(wanIfcs[w].IPv4, wanIfcs[w].IPv4Mask),
                        Subnet(lanIfcs[l].IPv4, lanIfcs[l].IPv4Mask))
  THEN Invalid("WAN and LAN IP addresses have an overlap")
  ELSE IF /\ checkOverlap
          /\ Len(organizationLanSubnets) > 0
          /\ \E o \in DOMAIN organizationLanSubnets, l \in DOMAIN lanIfcs :
               LET orgSubnet     == organizationLanSubnets[o].subnet
                   currentSubnet == Subnet(lanIfcs[l].IPv4, lanIfcs[l].IPv4Mask)
               IN /\ currentSubnet # orgSubnet
                  \* cidr.overlap throws on a subnet it cannot parse; the
                  \* throw is given as an invalid result, the caller
                  \* rejecting the request in both cases
                  /\ (~Parsable(orgSubnet) \/ cidrOverlap(currentSubnet, orgSubnet))
  THEN Invalid("The device has a LAN subnet overlap")
  ELSE Valid

RECURSIVE Concat(_, _)
\* subnets.reduce((acc, val) => acc.concat(val.interfaces), []) over the
\* devices of the collection, in the order ds
Concat(f, ds) ==
  IF ds = <<>> THEN <<>> ELSE f[Head(ds)] \o Concat(f, Tail(ds))

DeviceOrder == <<"d1", "d2">>

\* the aggregation: per device, its assigned LAN interfaces as {subnet, name}
getAllOrganiztionLanSubnets(db) ==
  LET lanOf(d) ==
        IF ~db[d].exists THEN <<>>
        ELSE LET lans == SelectSeq(db[d].interfaces,
                                   LAMBDA i : i.isAssigned /\ i.type = "LAN")
             IN [k \in DOMAIN lans |->
                   [subnet |-> Subnet(lans[k].IPv4, lans[k].IPv4Mask),
                    name |-> db[d].name]]
  IN Concat([d \in Devices |-> lanOf(d)], DeviceOrder)

(* ---------------------------------------------------------------------- *)
(* versioning, device queue                                                *)
(* ---------------------------------------------------------------------- *)
\* major part of a version triple
getMajorVersion(v) == v[1]

\* deviceQueues.addJob: a new job enters the queue of machineId as inactive
addJob(q, machineId, data, response, metadata) ==
  Append(q, [machineId |-> machineId, _state |-> "inactive",
             tasks |-> data.tasks, response |-> response,
             attempts |-> metadata.attempts])

(* ---------------------------------------------------------------------- *)
(* deviceLogic/dhcp.js                                                     *)
(* ---------------------------------------------------------------------- *)
\* apply that queues one job per assigned address next to the job of the entry
dhcpApply_PerField(q, deviceId, device, data) ==
  LET majorAgentVersion == getMajorVersion(device.versions.agent)
      message == IF data.action = "del" THEN "remove-dhcp-config" ELSE "add-dhcp-config"
      job(q0) == addJob(q0, deviceId,
                   [tasks |-> << [entity |-> "agent", message |-> message] >>],
                   [method |-> "dhcp",
                    data |-> [deviceId |-> deviceId, routeId |-> data._id,
                              message |-> message]],
                   [attempts |-> 1])
  IN
  IF majorAgentVersion = 0
  THEN [threw |-> TRUE, jobs |-> q]
  ELSE [threw |-> FALSE,
        jobs |-> IF data.macAssign = <<>> THEN job(q) ELSE job(job(q))]

\* apply that queues a job only for a connected device
dhcpApply_OnlyConnected(q, deviceId, device, data) ==
  LET majorAgentVersion == getMajorVersion(device.versions.agent)
      message == IF data.action = "del" THEN "remove-dhcp-config" ELSE "add-dhcp-config"
  IN
  IF majorAgentVersion = 0
  THEN [threw |-> TRUE, jobs |-> q]
  ELSE [threw |-> FALSE,
        jobs |-> IF ~connected[deviceId] THEN q
                 ELSE addJob(q, deviceId,
                        [tasks |-> << [entity |-> "agent", message |-> message] >>],
                        [method |-> "dhcp",
                         data |-> [deviceId |-> deviceId, routeId |-> data._id,
                                   message |-> message]],
                        [attempts |-> 1])]

\* apply: the queue after the call, and whether the call threw
dhcpApply(q, deviceId, device, data) ==
  LET majorAgentVersion == getMajorVersion(device.versions.agent)
      message == IF data.action = "del" THEN "remove-dhcp-config" ELSE "add-dhcp-config"
      params  == [interface |-> data.interface, range_start |-> data.rangeStart,
                  range_end |-> data.rangeEnd, dns |-> data.dns,
                  mac_assign |-> data.macAssign]
  IN
  IF majorAgentVersion = 0
  THEN [threw |-> TRUE, jobs |-> q]
  ELSE [threw |-> FALSE,
        jobs |-> addJob(q, deviceId,
                   [tasks |-> << [entity |-> "agent", message |-> message,
                                  params |-> params] >>],
                   [method |-> "dhcp",
                    data |-> [deviceId |-> deviceId, routeId |-> data._id,
                              message |-> message]],
                   [attempts |-> 1])]

\* SetRouteStatus with a $push of the status in place of the $set
SetRouteStatus_Push(doc, id, st) ==
  [doc EXCEPT !.staticroutes = Append(@, [_id |-> id, status |-> st])]

\* SetRouteStatus without the array filter: every element is set
SetRouteStatus_All(doc, id, st) ==
  [doc EXCEPT !.staticroutes = [i \in DOMAIN @ |-> [@[i] EXCEPT !.status = st]]]

\* { $set: { 'staticroutes.$[elem].status': st } } with arrayFilters elem._id = id
SetRouteStatus(doc, id, st) ==
  [doc EXCEPT !.staticroutes =
     [i \in DOMAIN @ |-> IF @[i]._id = id THEN [@[i] EXCEPT !.status = st] ELSE @[i]]]

\* { $pull: { staticroutes: { _id: id } } }
PullRoute(doc, id) ==
  [doc EXCEPT !.staticroutes = SelectSeq(@, LAMBDA r : r._id # id)]

\* devices.findOneAndUpdate({ _id: deviceId }, update): no document, no change
Found(db, deviceId) == deviceId \in DOMAIN db /\ db[deviceId].exists

UpdateRouteStatus(db, deviceId, routeId, st) ==
  IF Found(db, deviceId)
  THEN [db EXCEPT ![deviceId] = SetRouteStatus(@, routeId, st)]
  ELSE db

\* a result lacking deviceId, message or routeId is ignored
InvalidResult(res) == res.deviceId = "" \/ res.message = "" \/ res.routeId = 0

dhcpComplete(db, res) ==
  IF InvalidResult(res) THEN db
  ELSE IF res.message = "remove-route"
       THEN IF Found(db, res.deviceId)
            THEN [db EXCEPT ![res.deviceId] = PullRoute(@, res.routeId)]
            ELSE db
       ELSE UpdateRouteStatus(db, res.deviceId, res.routeId, "complete")

dhcpError(db, res) ==
  IF res.message = "remove-route"
  THEN UpdateRouteStatus(db, res.deviceId, res.routeId, "remove-failed")
  ELSE UpdateRouteStatus(db, res.deviceId, res.routeId, "add-failed")

\* dhcpRemove writing for every job that was not removed before
dhcpRemove_UnlessRemoved(db, job) ==
  IF job._state # "removed"
  THEN UpdateRouteStatus(db, job.response.data.deviceId,
                         job.response.data.routeId, "job-deleted")
  ELSE db

\* dhcpRemove without the test of the state the job was removed in
dhcpRemove_Always(db, job) ==
  UpdateRouteStatus(db, job.response.data.deviceId,
                    job.response.data.routeId, "job-deleted")

dhcpRemove(db, job) ==
  IF job._state \in {"inactive", "delayed", "active"}
  THEN UpdateRouteStatus(db, job.response.data.deviceId,
                         job.response.data.routeId, "job-deleted")
  ELSE db

(* ---------------------------------------------------------------------- *)
(* deviceLogic/dispatcher, deviceLogic/modifyDevice                        *)
(* ---------------------------------------------------------------------- *)
\* the 'modify' operation: one consolidated job carrying the new document,
\* queued when the document sent to the device changed
modifyApply(q, deviceId, device, data) ==
  IF data.newDevice.interfaces # device.interfaces \/ data.newDevice.dhcp # device.dhcp
  THEN [threw |-> FALSE,
        jobs |-> addJob(q, deviceId,
                   [tasks |-> << [entity |-> "agent", message |-> "modify-device"] >>],
                   [method |-> "modify",
                    data |-> [deviceId |-> deviceId, routeId |-> 0,
                              message |-> "modify-device"]],
                   [attempts |-> 1])]
  ELSE [threw |-> FALSE, jobs |-> q]

\* the 'staticroutes' operation: one job that adds or removes the route
staticroutesApply(q, deviceId, device, data) ==
  LET message == IF data.action = "del" THEN "remove-route" ELSE "add-route" IN
  [threw |-> FALSE,
   jobs |-> addJob(q, deviceId,
              [tasks |-> << [entity |-> "agent", message |-> message] >>],
              [method |-> "staticroutes",
               data |-> [deviceId |-> deviceId, routeId |-> data._id,
                         message |-> message]],
              [attempts |-> 1])]

\* dispatcher.apply: the apply function registered under the method name
dispatcherApply(q, deviceId, device, method, data) ==
  IF method = "dhcp" THEN dhcpApply(q, deviceId, device, data)
  ELSE IF method = "staticroutes" THEN staticroutesApply(q, deviceId, device, data)
  ELSE modifyApply(q, deviceId, device, data)

(* ---------------------------------------------------------------------- *)
(* Requests                                                                *)
(* ---------------------------------------------------------------------- *)
Mac1 == [host |-> "h1", mac |-> "m1", ipv4 |-> "10.0.1.21"]
Mac2 == [host |-> "h2", mac |-> "m2", ipv4 |-> "10.0.1.22"]

DhcpReq(ifc, rs, macs) ==
  [interface |-> ifc, rangeStart |-> rs, rangeEnd |-> "10.0.1.20",
   dns |-> <<"8.8.8.8">>, macAssign |-> macs]

ValidDhcpRequests ==
  { DhcpReq("pci1", "10.0.1.2", <<Mac1>>),
    DhcpReq("pci1", "10.0.1.3", <<Mac1, Mac2>>),
    DhcpReq("pci2", "10.0.1.2", <<>>) }

InvalidDhcpRequests ==
  { DhcpReq("", "10.0.1.2", <<>>),
    DhcpReq("pci9", "10.0.1.2", <<>>),
    DhcpReq("pci0", "10.0.1.2", <<>>),
    DhcpReq("pci1", "10.0.1.2", <<Mac1, [Mac2 EXCEPT !.mac = "m1"]>>) }

DhcpRequests == ValidDhcpRequests \cup InvalidDhcpRequests

\* uniqBy(arr, key).length
UniqCount(arr, key) == Cardinality({ arr[i][key] : i \in DOMAIN arr })

\* DevicesService.validateDhcpRequest: the message thrown, "" when none
validateDhcpRequest(device, dhcpRequest) ==
  LET found  == { i \in DOMAIN device.interfaces :
                    device.interfaces[i].pciaddr = dhcpRequest.interface }
      macLen == Len(dhcpRequest.macAssign)
  IN
  IF dhcpRequest.interface = "" THEN "Interface is required to define DHCP"
  ELSE IF found = {} THEN "Unknown interface in DHCP parameters"
  ELSE IF device.interfaces[CHOOSE i \in found : \A k \in found : i <= k].type # "LAN"
       THEN "DHCP can be defined only for LAN interfaces"
  ELSE IF UniqCount(dhcpRequest.macAssign, "mac") # macLen
       THEN "MAC bindings MACs are not unique"
  ELSE IF UniqCount(dhcpRequest.macAssign, "host") # macLen
       THEN "MAC bindings hosts are not unique"
  ELSE IF UniqCount(dhcpRequest.macAssign, "ipv4") # macLen
       THEN "MAC bindings IPs are not unique"
  ELSE ""

\* validateDhcpConfig: a modified interface must not carry a DHCP server
validateDhcpConfig(device, modifiedInterfaces) ==
  IF \E i \in DOMAIN device.dhcp, m \in DOMAIN modifiedInterfaces :
       device.dhcp[i].interface = modifiedInterfaces[m].pci
  THEN Invalid("DHCP defined on interface")
  ELSE Valid

\* Service.successResponse / Service.rejectResponse: the operation, the
\* device or tunnel it names and the status code (the message is err)
Response(op, id, code, err) == [op |-> op, id |-> id, code |-> code]

QueueHasRoom == Len(jobs) < MaxJobs
IdsLeft == nextId < FirstFreeId + MaxIds

(* ---------------------------------------------------------------------- *)
(* services/DevicesService.js, services/TunnelsService.js                  *)
(* ---------------------------------------------------------------------- *)
DeleteFaults == {"none", "billing", "remove"}

\* ActiveTunnelsOfDevice counting only the tunnels that start at the device
ActiveTunnelsOfDevice_OnlyA(id) ==
  { t \in Tunnels : tunnels[t].isActive /\ tunnels[t].deviceA = id }

\* tunnelsModel.countDocuments({ $or: [{deviceA: id}, {deviceB: id}], isActive: true })
ActiveTunnelsOfDevice(id) ==
  { t \in Tunnels : tunnels[t].isActive /\ (tunnels[t].deviceA = id \/ tunnels[t].deviceB = id) }

devicesIdDELETE(id, fault) ==
  LET op == "devicesIdDELETE" IN
  IF ActiveTunnelsOfDevice(id) # {}
  THEN /\ resp' = Response(op, id, 500,
                    "All device tunnels must be deleted before deleting a device")
       /\ UNCHANGED <<calls, sent, devices, tunnels, connected, registered, jobs, nextId>>
  ELSE IF ~devices[id].exists
  THEN /\ resp' = Response(op, id, 500, "Device for deletion not found")
       /\ UNCHANGED <<calls, sent, devices, tunnels, connected, registered, jobs, nextId>>
  ELSE \* connections.deviceDisconnect runs before the writes of the transaction
       /\ connected' = [connected EXCEPT ![id] = FALSE]
       /\ IF fault = "none"
          THEN /\ registered' = registered - 1
               /\ devices' = [devices EXCEPT ![id] = NoDoc]
               /\ resp' = Response(op, id, 204, "")
          ELSE \* registerDevice or remove threw: the transaction is aborted
               /\ resp' = Response(op, id, 500, fault)
               /\ UNCHANGED <<calls, sent, devices, registered>>
       /\ UNCHANGED <<calls, sent, tunnels, jobs, nextId>>

TunnelIds == Tunnels \cup {"t0"}

tunnelsIdDELETE(id) ==
  LET op == "tunnelsIdDELETE" IN
  IF id \in Tunnels
  THEN /\ tunnels' = [tunnels EXCEPT ![id].isActive = FALSE]
       /\ resp' = Response(op, id, 204, "")
       /\ UNCHANGED <<calls, sent, devices, connected, registered, jobs, nextId>>
  ELSE /\ resp' = Response(op, id, 404, "")
       /\ UNCHANGED <<calls, sent, devices, tunnels, connected, registered, jobs, nextId>>

\* the devices DHCP requests are sent to
DhcpDevices == {"d1"}

\* the DHCP sub-document ids a request may name
DhcpIds == SeedDhcpId .. (FirstFreeId + MaxIds - 1)

HasWait(status) == status \in {"add-wait", "del-wait"}

EntryIndex(doc, dhcpId) == { i \in DOMAIN doc.dhcp : doc.dhcp[i]._id = dhcpId }

SetDhcpStatus(doc, dhcpId, st) ==
  [doc EXCEPT !.dhcp =
     [i \in DOMAIN @ |-> IF @[i]._id = dhcpId THEN [@[i] EXCEPT !.status = st] ELSE @[i]]]

SetDhcpElem(doc, dhcpId, elem) ==
  [doc EXCEPT !.dhcp = [i \in DOMAIN @ |-> IF @[i]._id = dhcpId THEN elem ELSE @[i]]]

PullDhcp(doc, dhcpId) ==
  [doc EXCEPT !.dhcp = SelectSeq(@, LAMBDA e : e._id # dhcpId)]

NotSupported == "Command is not supported for the current agent version"

\* PostError without the call of validateDhcpRequest
PostError_Unvalidated(deviceObject, dhcpRequest) ==
  IF ~deviceObject.exists THEN "Device not found"
  ELSE IF ~deviceObject.isApproved THEN "Device must be first approved"
  ELSE IF \E i \in DOMAIN deviceObject.dhcp :
            deviceObject.dhcp[i].interface = dhcpRequest.interface
       THEN "DHCP already configured for that interface"
  ELSE ""

\* the checks made before the new entry is pushed: the message thrown,
\* "" when they pass
PostError(deviceObject, dhcpRequest) ==
  IF ~deviceObject.exists THEN "Device not found"
  ELSE IF ~deviceObject.isApproved THEN "Device must be first approved"
  ELSE IF validateDhcpRequest(deviceObject, dhcpRequest) # ""
       THEN validateDhcpRequest(deviceObject, dhcpRequest)
  ELSE IF \E i \in DOMAIN deviceObject.dhcp :
            deviceObject.dhcp[i].interface = dhcpRequest.interface
       THEN "DHCP already configured for that interface"
  ELSE ""

devicesIdDhcpPOST(id, dhcpRequest) ==
  LET op == "devicesIdDhcpPOST"
      deviceObject == devices[id]
      err == PostError(deviceObject, dhcpRequest)
  IN
  IF err # ""
  THEN /\ resp' = Response(op, id, 500, err)
       /\ UNCHANGED <<calls, sent, devices, tunnels, connected, registered, jobs, nextId>>
  ELSE /\ IdsLeft
       /\ QueueHasRoom
       /\ LET dhcp == [_id |-> nextId, interface |-> dhcpRequest.interface,
                       rangeStart |-> dhcpRequest.rangeStart,
                       rangeEnd |-> dhcpRequest.rangeEnd, dns |-> dhcpRequest.dns,
                       macAssign |-> dhcpRequest.macAssign, status |-> "add-wait"]
              copy == [interface |-> dhcpRequest.interface,
                       rangeStart |-> dhcpRequest.rangeStart,
                       rangeEnd |-> dhcpRequest.rangeEnd, dns |-> dhcpRequest.dns,
                       macAssign |-> dhcpRequest.macAssign,
                       method |-> "dhcp", _id |-> dhcp._id, action |-> "add"]
              r == dispatcherApply(jobs, id, deviceObject, copy.method, copy)
          IN \* the push is committed before the dispatcher is called
             /\ devices' = [devices EXCEPT ![id].dhcp = Append(@, dhcp)]
             /\ nextId' = nextId + 1
             /\ jobs' = r.jobs
             /\ resp' = IF r.threw THEN Response(op, id, 500, NotSupported)
                        ELSE Response(op, id, 202, "")
       /\ UNCHANGED <<calls, sent, tunnels, connected, registered>>

devicesIdDhcpDhcpIdDELETE(id, dhcpId, force) ==
  LET op == "devicesIdDhcpDhcpIdDELETE"
      device == devices[id]
      isForce == (force = "yes")
  IN
  IF ~device.exists
  THEN /\ resp' = Response(op, id, 500, "Device not found")
       /\ UNCHANGED <<calls, sent, devices, tunnels, connected, registered, jobs, nextId>>
  ELSE IF Cardinality(EntryIndex(device, dhcpId)) # 1
  THEN /\ resp' = Response(op, id, 500, "DHCP ID not found")
       /\ UNCHANGED <<calls, sent, devices, tunnels, connected, registered, jobs, nextId>>
  ELSE LET deleteDhcpObj == device.dhcp[CHOOSE i \in EntryIndex(device, dhcpId) : TRUE]
           copy == [interface |-> deleteDhcpObj.interface,
                    rangeStart |-> deleteDhcpObj.rangeStart,
                    rangeEnd |-> deleteDhcpObj.rangeEnd, dns |-> deleteDhcpObj.dns,
                    macAssign |-> deleteDhcpObj.macAssign,
                    method |-> "dhcp", _id |-> dhcpId, action |-> "del"]
           resend == deleteDhcpObj.status # "del-wait"
           r == IF resend THEN dispatcherApply(jobs, id, device, copy.method, copy)
                ELSE [threw |-> FALSE, jobs |-> jobs]
           marked == SetDhcpStatus(device, dhcpId, "del-wait")
       IN /\ resend => QueueHasRoom
          /\ jobs' = r.jobs
          /\ devices' = [devices EXCEPT ![id] =
                           IF isForce /\ ~r.threw THEN PullDhcp(marked, dhcpId)
                           ELSE marked]
          /\ resp' = IF r.threw THEN Response(op, id, 500, NotSupported)
                     ELSE Response(op, id, 202, "")
          /\ UNCHANGED <<calls, sent, tunnels, connected, registered, nextId>>

\* DeleteFindOneAndUpdate without the update: the status is read only
DeleteFindOneAndUpdate_ReadOnly(c, id, dhcpId, force) ==
  /\ calls[c].pc = "idle"
  /\ devices[id].exists
  /\ Cardinality(EntryIndex(devices[id], dhcpId)) = 1
  /\ calls' = [calls EXCEPT ![c] =
                 [pc |-> "apply", id |-> id, dhcpId |-> dhcpId,
                  force |-> force, device |-> devices[id]]]
  /\ UNCHANGED <<resp, sent, devices, tunnels, connected, registered, jobs, nextId>>

\* devicesIdDhcpDhcpIdDELETE as the steps between its awaits, for requests
\* served at the same time. First step: the findOneAndUpdate that sets
\* del-wait and returns the document as it was before (new: false), then
\* the two throws.
DeleteFindOneAndUpdate(c, id, dhcpId, force) ==
  LET op == "devicesIdDhcpDhcpIdDELETE"
      device == devices[id]
  IN
  /\ calls[c].pc = "idle"
  /\ IF ~device.exists
     THEN /\ resp' = Response(op, id, 500, "Device not found")
          /\ UNCHANGED <<calls, sent, devices, tunnels, connected, registered, jobs, nextId>>
     ELSE /\ devices' = [devices EXCEPT ![id] = SetDhcpStatus(device, dhcpId, "del-wait")]
          /\ IF Cardinality(EntryIndex(device, dhcpId)) # 1
             THEN /\ resp' = Response(op, id, 500, "DHCP ID not found")
                  /\ calls' = calls
             ELSE /\ calls' = [calls EXCEPT ![c] =
                                 [pc |-> "apply", id |-> id, dhcpId |-> dhcpId,
                                  force |-> force, device |-> device]]
                  /\ resp' = resp
          /\ UNCHANGED <<sent, tunnels, connected, registered, jobs, nextId>>

\* second step: dispatcher.apply with the returned document, unless the
\* returned entry was already in del-wait
DeleteApply(c) ==
  LET op == "devicesIdDhcpDhcpIdDELETE"
      call == calls[c]
      device == call.device
      deleteDhcpObj == device.dhcp[CHOOSE i \in EntryIndex(device, call.dhcpId) : TRUE]
      copy == [interface |-> deleteDhcpObj.interface,
               rangeStart |-> deleteDhcpObj.rangeStart,
               rangeEnd |-> deleteDhcpObj.rangeEnd, dns |-> deleteDhcpObj.dns,
               macAssign |-> deleteDhcpObj.macAssign,
               method |-> "dhcp", _id |-> call.dhcpId, action |-> "del"]
      resend == deleteDhcpObj.status # "del-wait"
      r == IF resend THEN dispatcherApply(jobs, call.id, device, copy.method, copy)
           ELSE [threw |-> FALSE, jobs |-> jobs]
  IN
  /\ calls[c].pc = "apply"
  /\ resend => QueueHasRoom
  /\ jobs' = r.jobs
  /\ IF r.threw
     THEN /\ resp' = Response(op, call.id, 500, NotSupported)
          /\ calls' = [calls EXCEPT ![c] = Idle]
     ELSE IF call.force = "yes"
     THEN /\ resp' = resp
          /\ calls' = [calls EXCEPT ![c].pc = "pull"]
     ELSE /\ resp' = Response(op, call.id, 202, "")
          /\ calls' = [calls EXCEPT ![c] = Idle]
  /\ UNCHANGED <<sent, devices, tunnels, connected, registered, nextId>>

\* third step, with force: the $pull of the entry and the 202
DeletePull(c) ==
  LET op == "devicesIdDhcpDhcpIdDELETE"
      call == calls[c]
  IN
  /\ calls[c].pc = "pull"
  /\ devices' = [devices EXCEPT ![call.id] = PullDhcp(@, call.dhcpId)]
  /\ resp' = Response(op, call.id, 202, "")
  /\ calls' = [calls EXCEPT ![c] = Idle]
  /\ UNCHANGED <<sent, tunnels, connected, registered, jobs, nextId>>

(* ---------------------------------------------------------------------- *)
(* migrations/1607600926132-pci_to_dev_id                                  *)
(* ---------------------------------------------------------------------- *)
\* i[key] || ''
OrEmpty(i, key) == IF key \in DOMAIN i THEN i[key] ELSE ""

\* { ...i, [key]: value }
WithKey(i, key, value) ==
  [k \in DOMAIN i \cup {key} |-> IF k = key THEN value ELSE i[k]]

\* delete i[key]
WithoutKey(i, key) == [k \in DOMAIN i \ {key} |-> i[k]]

\* the mapping of up over one interface
upInterface(i) ==
  LET devId == OrEmpty(i, "pciaddr")
      rest  == IF devId # "" THEN WithoutKey(i, "pciaddr") ELSE i
  IN WithKey(WithKey(rest, "devId", "pci:" \o devId),
             "deviceType", OrEmpty(i, "deviceType"))

\* the mapping of down over one interface
downInterface(i) ==
  LET pciaddr == OrEmpty(i, "devId")
      rest    == IF pciaddr # "" THEN WithoutKey(i, "devId") ELSE i
  IN WithKey(rest, "pciaddr", pciaddr)

up(interfaces) == [n \in DOMAIN interfaces |-> upInterface(interfaces[n])]
down(interfaces) == [n \in DOMAIN interfaces |-> downInterface(interfaces[n])]

\* the longest address the migrations are run on
MaxAddr == 20

AddrsWithin(interfaces, len) ==
  \A n \in DOMAIN interfaces :
    /\ Len(OrEmpty(interfaces[n], "pciaddr")) <= len
    /\ Len(OrEmpty(interfaces[n], "devId")) <= len

\* up: every device document gets its interfaces mapped and written back
MigrationUp ==
  /\ \A d \in Devices : devices[d].exists => AddrsWithin(devices[d].interfaces, MaxAddr - 4)
  /\ devices' = [d \in Devices |->
                   IF devices[d].exists
                   THEN [devices[d] EXCEPT !.interfaces = up(@)]
                   ELSE devices[d]]
  /\ UNCHANGED <<calls, sent, tunnels, connected, registered, jobs, nextId, resp>>

\* down: every device document gets its interfaces mapped and written back
MigrationDown ==
  /\ devices' = [d \in Devices |->
                   IF devices[d].exists
                   THEN [devices[d] EXCEPT !.interfaces = down(@)]
                   ELSE devices[d]]
  /\ UNCHANGED <<calls, sent, tunnels, connected, registered, jobs, nextId, resp>>

(* ---------------------------------------------------------------------- *)
(* Upgrade schedule                                                        *)
(* ---------------------------------------------------------------------- *)
\* the bodies of a schedule request: the device ids, which may name a
\* device that does not exist or the same device twice, and the date
UpgradeRequests ==
  { [devices |-> ids, date |-> t] :
      ids \in { <<"d1">>, <<"d1", "d2">>, <<"d2", "d2">>, <<"d1", "d9">> },
      t \in {1, 2} }

\* devices.countDocuments({ _id: { $in: ids }, org: { $in: orgList } })
countDocuments(db, ids) ==
  Cardinality({ d \in DOMAIN db : db[d].exists /\ d \in Range(ids) })

\* devices.updateMany({ _id: { $in: ids }, ... }, { $set: { upgradeSchedule } })
updateMany(db, ids, schedule) ==
  [d \in DOMAIN db |->
     IF db[d].exists /\ d \in Range(ids)
     THEN [db[d] EXCEPT !.upgradeSchedule = schedule]
     ELSE db[d]]

\* devicesUpgdSchedPOST as the steps between its awaits. First step: the
\* count of the requested ids that are found, and the rejection
UpgdSchedCountDocuments(c, devicesUpgradeRequest) ==
  LET op == "devicesUpgdSchedPOST"
      numOfIdsFound == countDocuments(devices, devicesUpgradeRequest.devices)
  IN
  /\ calls[c].pc = "idle"
  /\ IF numOfIdsFound < Len(devicesUpgradeRequest.devices)
     THEN /\ resp' = Response(op, "all", 500, "Some devices were not found")
          /\ calls' = calls
     ELSE /\ resp' = resp
          /\ calls' = [calls EXCEPT ![c] =
                         [pc |-> "updateMany", request |-> devicesUpgradeRequest]]
  /\ UNCHANGED <<sent, devices, tunnels, connected, registered, jobs, nextId>>

\* second step: the updateMany of the devices that match the query now
UpgdSchedUpdateMany(c) ==
  LET op == "devicesUpgdSchedPOST"
      devicesUpgradeRequest == calls[c].request
  IN
  /\ calls[c].pc = "updateMany"
  /\ devices' = updateMany(devices, devicesUpgradeRequest.devices,
                           [time |-> devicesUpgradeRequest.date, jobQueued |-> FALSE])
  /\ resp' = Response(op, "all", 204, "")
  /\ calls' = [calls EXCEPT ![c] = Idle]
  /\ UNCHANGED <<sent, tunnels, connected, registered, jobs, nextId>>

\* the compared projection of a stored entry (origCmpDhcp)
CmpDhcp(e) ==
  [_id |-> e._id, dns |-> e.dns, interface |-> e.interface,
   macAssign |-> e.macAssign, rangeStart |-> e.rangeStart, rangeEnd |-> e.rangeEnd]

\* the request body of a modify: the definition and the id of the entry
PutBody(dhcpId, req) ==
  [_id |-> dhcpId, dns |-> req.dns, interface |-> req.interface,
   macAssign |-> req.macAssign, rangeStart |-> req.rangeStart, rangeEnd |-> req.rangeEnd]

\* the checks shared by modify and re-apply, "" when they pass
DhcpChangeError(deviceObject, dhcpId) ==
  IF ~deviceObject.exists THEN "Device not found"
  ELSE IF ~deviceObject.isApproved THEN "Device must be first approved"
  ELSE IF \E i \in DOMAIN deviceObject.dhcp : HasWait(deviceObject.dhcp[i].status)
       THEN "Only one device change is allowed at any time"
  ELSE IF Cardinality(EntryIndex(deviceObject, dhcpId)) # 1 THEN "DHCP ID not found"
  ELSE ""

devicesIdDhcpDhcpIdPUT(id, dhcpId, req) ==
  LET op == "devicesIdDhcpDhcpIdPUT"
      deviceObject == devices[id]
      dhcpRequest  == PutBody(dhcpId, req)
      err == DhcpChangeError(deviceObject, dhcpId)
  IN
  IF err # ""
  THEN /\ resp' = Response(op, id, 500, err)
       /\ UNCHANGED <<calls, sent, devices, tunnels, connected, registered, jobs, nextId>>
  ELSE LET majorAgentVersion == getMajorVersion(deviceObject.versions.agent)
           origDhcp == deviceObject.dhcp[CHOOSE i \in EntryIndex(deviceObject, dhcpId) : TRUE]
           dhcpData == [_id |-> dhcpId, interface |-> dhcpRequest.interface,
                        rangeStart |-> dhcpRequest.rangeStart,
                        rangeEnd |-> dhcpRequest.rangeEnd, dns |-> dhcpRequest.dns,
                        macAssign |-> dhcpRequest.macAssign]
       IN
       IF majorAgentVersion < 2
       THEN IF dhcpRequest = CmpDhcp(origDhcp)
            THEN \* nothing to resend, and no response is produced
                 /\ resp' = Response(op, id, 0, "")
                 /\ UNCHANGED <<calls, sent, devices, tunnels, connected, registered, jobs, nextId>>
            ELSE IF validateDhcpRequest(deviceObject, dhcpRequest) # ""
            THEN /\ resp' = Response(op, id, 500,
                                     validateDhcpRequest(deviceObject, dhcpRequest))
                 /\ UNCHANGED <<calls, sent, devices, tunnels, connected, registered, jobs, nextId>>
            ELSE LET copy == [interface |-> dhcpRequest.interface,
                              rangeStart |-> dhcpRequest.rangeStart,
                              rangeEnd |-> dhcpRequest.rangeEnd, dns |-> dhcpRequest.dns,
                              macAssign |-> dhcpRequest.macAssign, method |-> "dhcp",
                              _id |-> dhcpRequest._id, action |-> "modify"]
                     r == dispatcherApply(jobs, id, deviceObject, copy.method, copy)
                 IN /\ QueueHasRoom
                    /\ jobs' = r.jobs
                    /\ devices' = IF r.threw THEN devices
                                  ELSE [devices EXCEPT ![id] =
                                          SetDhcpElem(@, dhcpId,
                                            [_id |-> dhcpId,
                                             interface |-> dhcpData.interface,
                                             rangeStart |-> dhcpData.rangeStart,
                                             rangeEnd |-> dhcpData.rangeEnd,
                                             dns |-> dhcpData.dns,
                                             macAssign |-> dhcpData.macAssign,
                                             status |-> "add-wait"])]
                    /\ resp' = IF r.threw THEN Response(op, id, 500, NotSupported)
                               ELSE Response(op, id, 202, "")
                    /\ UNCHANGED <<calls, sent, tunnels, connected, registered, nextId>>
       ELSE \* the element is replaced by the request, which carries no status
            LET updDevice == SetDhcpElem(deviceObject, dhcpId,
                               [_id |-> dhcpId, interface |-> dhcpData.interface,
                                rangeStart |-> dhcpData.rangeStart,
                                rangeEnd |-> dhcpData.rangeEnd, dns |-> dhcpData.dns,
                                macAssign |-> dhcpData.macAssign, status |-> ""])
                r == dispatcherApply(jobs, id, deviceObject, "modify",
                                     [newDevice |-> updDevice])
            IN /\ QueueHasRoom
               /\ devices' = [devices EXCEPT ![id] = updDevice]
               /\ jobs' = r.jobs
               /\ resp' = Response(op, id, 202, "")
               /\ UNCHANGED <<calls, sent, tunnels, connected, registered, nextId>>

\* devicesIdDhcpDhcpIdPATCH without the test of the entry's status
devicesIdDhcpDhcpIdPATCH_AnyStatus(id, dhcpId) ==
  LET op == "devicesIdDhcpDhcpIdPATCH"
      deviceObject == devices[id]
      err == DhcpChangeError(deviceObject, dhcpId)
  IN
  IF err # ""
  THEN /\ resp' = Response(op, id, 500, err)
       /\ UNCHANGED <<calls, sent, devices, tunnels, connected, registered, jobs, nextId>>
  ELSE LET dhcpObject == deviceObject.dhcp[CHOOSE i \in EntryIndex(deviceObject, dhcpId) : TRUE]
           copy == [interface |-> dhcpObject.interface,
                    rangeStart |-> dhcpObject.rangeStart,
                    rangeEnd |-> dhcpObject.rangeEnd, dns |-> dhcpObject.dns,
                    macAssign |-> dhcpObject.macAssign, method |-> "dhcp",
                    _id |-> dhcpObject._id,
                    action |-> IF dhcpObject.status = "add-failed" THEN "add"
                               ELSE "del"]
           r == dispatcherApply(jobs, id, deviceObject, copy.method, copy)
       IN /\ QueueHasRoom
          /\ jobs' = r.jobs
          /\ resp' = IF r.threw THEN Response(op, id, 500, NotSupported)
                     ELSE Response(op, id, 202, "")
          /\ UNCHANGED <<calls, sent, devices, tunnels, connected, registered, nextId>>

devicesIdDhcpDhcpIdPATCH(id, dhcpId) ==
  LET op == "devicesIdDhcpDhcpIdPATCH"
      deviceObject == devices[id]
      err == DhcpChangeError(deviceObject, dhcpId)
  IN
  IF err # ""
  THEN /\ resp' = Response(op, id, 500, err)
       /\ UNCHANGED <<calls, sent, devices, tunnels, connected, registered, jobs, nextId>>
  ELSE LET dhcpObject == deviceObject.dhcp[CHOOSE i \in EntryIndex(deviceObject, dhcpId) : TRUE]
       IN
       IF dhcpObject.status # "add-failed" /\ dhcpObject.status # "remove-failed"
       THEN /\ resp' = Response(op, id, 500, "Only allowed for add or removed failed jobs")
            /\ UNCHANGED <<calls, sent, devices, tunnels, connected, registered, jobs, nextId>>
       ELSE LET copy == [interface |-> dhcpObject.interface,
                         rangeStart |-> dhcpObject.rangeStart,
                         rangeEnd |-> dhcpObject.rangeEnd, dns |-> dhcpObject.dns,
                         macAssign |-> dhcpObject.macAssign, method |-> "dhcp",
                         _id |-> dhcpObject._id,
                         action |-> IF dhcpObject.status = "add-failed" THEN "add"
                                    ELSE "del"]
                r == dispatcherApply(jobs, id, deviceObject, copy.method, copy)
            IN /\ QueueHasRoom
               /\ jobs' = r.jobs
               /\ resp' = IF r.threw THEN Response(op, id, 500, NotSupported)
                          ELSE Response(op, id, 202, "")
               /\ UNCHANGED <<calls, sent, devices, tunnels, connected, registered, nextId>>

(* ---------------------------------------------------------------------- *)
(* Static routes                                                           *)
(* ---------------------------------------------------------------------- *)
\* the ids a static-route request may name
RouteIds == 1 .. (FirstFreeId + MaxIds - 1)

RouteIndex(doc, route) == { i \in DOMAIN doc.staticroutes : doc.staticroutes[i]._id = route }

\* the bodies of a re-apply: the route as the operator sees it
RoutePatchRequests(id) ==
  { [_id |-> RouteIdOf(id), status |-> st, isApproved |-> b] :
      st \in {"add-failed", "remove-failed"}, b \in BOOLEAN }

\* the bodies of an addition, as far as the handler reads them
RoutePostRequests == { [isApproved |-> b] : b \in BOOLEAN }

devicesIdStaticroutesPOST(id, staticRouteRequest) ==
  LET op == "devicesIdStaticroutesPOST"
      device == devices[id]
  IN
  IF ~device.exists
  THEN /\ resp' = Response(op, id, 500, "Device not found")
       /\ UNCHANGED <<calls, sent, devices, tunnels, connected, registered, jobs, nextId>>
  ELSE IF ~device.isApproved /\ ~staticRouteRequest.isApproved
  THEN /\ resp' = Response(op, id, 400, "Device must be first approved")
       /\ UNCHANGED <<calls, sent, devices, tunnels, connected, registered, jobs, nextId>>
  ELSE /\ IdsLeft
       /\ QueueHasRoom
       /\ LET route == [_id |-> nextId, status |-> ""]
              copy == [method |-> "staticroutes", _id |-> route._id, action |-> "add"]
              r == dispatcherApply(jobs, id, device, copy.method, copy)
          IN /\ devices' = [devices EXCEPT ![id].staticroutes = Append(@, route)]
             /\ nextId' = nextId + 1
             /\ jobs' = r.jobs
             /\ resp' = Response(op, id, 201, "")
       /\ UNCHANGED <<calls, sent, tunnels, connected, registered>>

devicesIdStaticroutesRouteDELETE(id, route) ==
  LET op == "devicesIdStaticroutesRouteDELETE"
      device == devices[id]
  IN
  IF ~device.exists
  THEN /\ resp' = Response(op, id, 500, "Device not found")
       /\ UNCHANGED <<calls, sent, devices, tunnels, connected, registered, jobs, nextId>>
  ELSE IF Cardinality(RouteIndex(device, route)) # 1
  THEN /\ resp' = Response(op, id, 500, "Static route not found")
       /\ UNCHANGED <<calls, sent, devices, tunnels, connected, registered, jobs, nextId>>
  ELSE LET copy == [method |-> "staticroutes", _id |-> route, action |-> "del"]
           r == dispatcherApply(jobs, id, device, copy.method, copy)
       IN /\ QueueHasRoom
          /\ jobs' = r.jobs
          /\ resp' = Response(op, id, 204, "")
          /\ UNCHANGED <<calls, sent, devices, tunnels, connected, registered, nextId>>

devicesIdStaticroutesRoutePATCH(id, staticRouteRequest) ==
  LET op == "devicesIdStaticroutesRoutePATCH"
      device == devices[id]
  IN
  IF ~device.exists
  THEN /\ resp' = Response(op, id, 500, "Device not found")
       /\ UNCHANGED <<calls, sent, devices, tunnels, connected, registered, jobs, nextId>>
  ELSE IF ~device.isApproved /\ ~staticRouteRequest.isApproved
  THEN /\ resp' = Response(op, id, 400, "Device must be first approved")
       /\ UNCHANGED <<calls, sent, devices, tunnels, connected, registered, jobs, nextId>>
  ELSE LET copy == [method |-> "staticroutes", _id |-> staticRouteRequest._id,
                    action |-> IF staticRouteRequest.status = "add-failed"
                               THEN "add" ELSE "del"]
           r == dispatcherApply(jobs, id, device, copy.method, copy)
       IN /\ QueueHasRoom
          /\ jobs' = r.jobs
          /\ resp' = Response(op, id, 200, "")
          /\ UNCHANGED <<calls, sent, devices, tunnels, connected, registered, nextId>>

\* ActiveTunnelsOfInterface counting only the tunnels that start at the interface
ActiveTunnelsOfInterface_OnlyA(ifId) ==
  { t \in Tunnels : tunnels[t].isActive /\ tunnels[t].interfaceA = ifId }

\* tunnelsModel.countDocuments({ isActive: true, $or: [{interfaceA}, {interfaceB}] })
ActiveTunnelsOfInterface(ifId) ==
  { t \in Tunnels : tunnels[t].isActive
                    /\ (tunnels[t].interfaceA = ifId \/ tunnels[t].interfaceB = ifId) }

\* the tunnel connectivity check of one updated interface, "" when it passes
TunnelError(origIntf, updIntf) ==
  IF ~origIntf.isAssigned THEN ""
  ELSE IF ~updIntf.isAssigned
       THEN IF ActiveTunnelsOfInterface(origIntf._id) # {}
            THEN "Unassigned interface used by existing tunnels"
            ELSE ""
  ELSE LET remLabels == origIntf.pathlabels \ updIntf.pathlabels IN
       IF /\ remLabels # {}
          /\ \E t \in ActiveTunnelsOfInterface(origIntf._id) : tunnels[t].pathlabel \in remLabels
       THEN "Removed label used by existing tunnels"
       ELSE ""

\* the interface written for an existing interface that the request names
UpdatedIntf(origIntf, updIntf) ==
  LET keepNet == ~updIntf.isAssigned \/ updIntf.dhcp = "yes"
      u == [updIntf EXCEPT !.IPv4 = IF keepNet THEN origIntf.IPv4 ELSE @,
                           !.IPv4Mask = IF keepNet THEN origIntf.IPv4Mask ELSE @,
                           !.gateway = IF keepNet THEN origIntf.gateway ELSE @]
  IN [u EXCEPT !.modified =
        IF \/ u.isAssigned # origIntf.isAssigned
           \/ u.type # origIntf.type
           \/ u.dhcp # origIntf.dhcp
           \/ u.IPv4 # origIntf.IPv4
           \/ u.IPv4Mask # origIntf.IPv4Mask
           \/ u.gateway # origIntf.gateway
        THEN TRUE ELSE @]

\* deviceRequest.interfaces.find(rif => origIntf._id.toString() === rif._id)
FindUpd(reqIfs, origIntf) ==
  LET hits == { k \in DOMAIN reqIfs : reqIfs[k]._id = origIntf._id } IN
  IF hits = {} THEN 0 ELSE CHOOSE k \in hits : \A m \in hits : k <= m

\* MergeInterfaces keeping also the request entries that match no interface
MergeInterfaces_Append(origIfs, reqIfs) ==
  [i \in DOMAIN origIfs |->
     IF FindUpd(reqIfs, origIfs[i]) = 0 THEN origIfs[i]
     ELSE UpdatedIntf(origIfs[i], reqIfs[FindUpd(reqIfs, origIfs[i])])]
    \o SelectSeq(reqIfs, LAMBDA r : \A i \in DOMAIN origIfs : origIfs[i]._id # r._id)

\* origDevice.interfaces.map(...): interfaces are only modified, never deleted
MergeInterfaces(origIfs, reqIfs) ==
  [i \in DOMAIN origIfs |->
     IF FindUpd(reqIfs, origIfs[i]) = 0 THEN origIfs[i]
     ELSE UpdatedIntf(origIfs[i], reqIfs[FindUpd(reqIfs, origIfs[i])])]

MergeError(origIfs, reqIfs) ==
  LET bad == { i \in DOMAIN origIfs :
                 /\ FindUpd(reqIfs, origIfs[i]) # 0
                 /\ TunnelError(origIfs[i], reqIfs[FindUpd(reqIfs, origIfs[i])]) # "" }
  IN IF bad = {} THEN ""
     ELSE LET i == CHOOSE k \in bad : \A m \in bad : k <= m
          IN TunnelError(origIfs[i], reqIfs[FindUpd(reqIfs, origIfs[i])])

\* the bodies a modify-device request may carry for device id
PutRequests(id) ==
  LET base == InitInterfaces(id)
      ifs(x) == [has |-> {"interfaces"}, isApproved |-> FALSE, interfaces |-> x]
  IN { [has |-> {"isApproved"}, isApproved |-> TRUE, interfaces |-> <<>>],
       [has |-> {"isApproved"}, isApproved |-> FALSE, interfaces |-> <<>>],
       ifs(<< [base[2] EXCEPT !.gateway = IP(10, 0, 0, 254)] >>),
       ifs(<< [base[1] EXCEPT !.isAssigned = FALSE] >>),
       ifs(<< [base[1] EXCEPT !.pathlabels = {"red"}] >>),
       ifs(<< [base[1] EXCEPT !.pathlabels = {"green"}] >>),
       ifs(<< [base[3] EXCEPT !.isAssigned = TRUE],
              [base[3] EXCEPT !._id = id \o "-if9"] >>) }

\* configs.get('forbidLanSubnetOverlaps', 'boolean')
forbidLanSubnetOverlaps == TRUE

devicesIdPUT(id, deviceRequest, isRunning) ==
  LET op == "devicesIdPUT"
      origDevice == devices[id]
      hasIfs == "interfaces" \in deviceRequest.has
      reqApproved == "isApproved" \in deviceRequest.has /\ deviceRequest.isApproved
      orgLanSubnets == IF isRunning /\ forbidLanSubnetOverlaps
                       THEN getAllOrganiztionLanSubnets(devices) ELSE <<>>
  IN
  IF ~origDevice.exists
  THEN \* findOne gives null and reading a field of it throws
       /\ resp' = Response(op, id, 500, "Cannot read property of null")
       /\ UNCHANGED <<calls, sent, devices, tunnels, connected, registered, jobs, nextId>>
  ELSE IF ~origDevice.isApproved /\ ~reqApproved
  THEN /\ resp' = Response(op, id, 500, "Device must be first approved")
       /\ UNCHANGED <<calls, sent, devices, tunnels, connected, registered, jobs, nextId>>
  ELSE IF hasIfs /\ MergeError(origDevice.interfaces, deviceRequest.interfaces) # ""
  THEN /\ resp' = Response(op, id, 500,
                           MergeError(origDevice.interfaces, deviceRequest.interfaces))
       /\ UNCHANGED <<calls, sent, devices, tunnels, connected, registered, jobs, nextId>>
  ELSE LET interfaces == IF hasIfs
                         THEN MergeInterfaces(origDevice.interfaces, deviceRequest.interfaces)
                         ELSE origDevice.interfaces
           deviceToValidate == [origDevice EXCEPT !.interfaces = interfaces]
           modifiedInterfaces ==
             LET m == SelectSeq(interfaces, LAMBDA intf : intf.modified)
             IN [k \in DOMAIN m |-> [pci |-> m[k].pciaddr]]
           dhcpCheck == IF hasIfs THEN validateDhcpConfig(origDevice, modifiedInterfaces)
                        ELSE Valid
           devCheck == validateDevice(deviceToValidate, isRunning, orgLanSubnets)
       IN
       IF ~dhcpCheck.valid
       THEN /\ resp' = Response(op, id, 500, dhcpCheck.err)
            /\ UNCHANGED <<calls, sent, devices, tunnels, connected, registered, jobs, nextId>>
       ELSE IF ~devCheck.valid
       THEN /\ resp' = Response(op, id, 500, devCheck.err)
            /\ UNCHANGED <<calls, sent, devices, tunnels, connected, registered, jobs, nextId>>
       ELSE LET updDevice ==
                  [origDevice EXCEPT
                     !.isApproved = IF "isApproved" \in deviceRequest.has
                                    THEN deviceRequest.isApproved ELSE @,
                     !.interfaces = interfaces]
                r == dispatcherApply(jobs, id, origDevice, "modify",
                                     [newDevice |-> updDevice])
            IN /\ (r.jobs # jobs) => QueueHasRoom
               /\ connected' = IF "isApproved" \in deviceRequest.has
                                  /\ ~deviceRequest.isApproved
                               THEN [connected EXCEPT ![id] = FALSE] ELSE connected
               /\ devices' = [devices EXCEPT ![id] = updDevice]
               /\ jobs' = r.jobs
               /\ resp' = Response(op, id, IF r.jobs # jobs THEN 202 ELSE 200, "")
               /\ UNCHANGED <<calls, sent, tunnels, registered, nextId>>

(* ---------------------------------------------------------------------- *)
(* Synchronous reads                                                       *)
(* ---------------------------------------------------------------------- *)
\* number of messages kept in the record of the messages sent
MaxSent == 2

\* the replies of the agent to a message: ok with its data, or not ok
AgentReplies ==
  { [ok |-> TRUE, message |-> <<"item">>],
    [ok |-> TRUE, message |-> <<>>],
    [ok |-> FALSE, message |-> <<>>] }

\* the response of a read: the payload's status and data next to the code
ReadResponse(op, id, code, status, data) ==
  [op |-> op, id |-> id, code |-> code, status |-> status, data |-> data]

\* connections.deviceSendMessage(null, machineId, msg): the message goes out
\* on the channel of the device
deviceSendMessage(log, machineId, message) ==
  Append(log, [machineId |-> machineId, message |-> message])

\* find the device, answer 'disconnected' when its channel is closed, else
\* send get-router-config and wait for the reply
devicesIdConfigurationGET(id, reply) ==
  LET op == "devicesIdConfigurationGET" IN
  IF ~devices[id].exists
  THEN /\ resp' = ReadResponse(op, id, 404, "", <<>>)
       /\ UNCHANGED <<calls, devices, tunnels, connected, registered, jobs, nextId, sent>>
  ELSE IF ~connected[id]
  THEN /\ resp' = ReadResponse(op, id, 200, "disconnected", <<>>)
       /\ UNCHANGED <<calls, devices, tunnels, connected, registered, jobs, nextId, sent>>
  ELSE /\ Len(sent) < MaxSent
       /\ sent' = deviceSendMessage(sent, id, "get-router-config")
       /\ resp' = IF ~reply.ok
                  THEN ReadResponse(op, id, 500, "", <<>>)
                  ELSE ReadResponse(op, id, 200, "connected", reply.message)
       /\ UNCHANGED <<calls, devices, tunnels, connected, registered, jobs, nextId>>

\* the same frame with get-device-logs
devicesIdLogsGET(id, reply) ==
  LET op == "devicesIdLogsGET" IN
  IF ~devices[id].exists
  THEN /\ resp' = ReadResponse(op, id, 500, "", <<>>)
       /\ UNCHANGED <<calls, devices, tunnels, connected, registered, jobs, nextId, sent>>
  ELSE IF ~connected[id]
  THEN /\ resp' = ReadResponse(op, id, 200, "disconnected", <<>>)
       /\ UNCHANGED <<calls, devices, tunnels, connected, registered, jobs, nextId, sent>>
  ELSE /\ Len(sent) < MaxSent
       /\ sent' = deviceSendMessage(sent, id, "get-device-logs")
       /\ resp' = IF ~reply.ok
                  THEN ReadResponse(op, id, 500, "", <<>>)
                  ELSE ReadResponse(op, id, 200, "connected", reply.message)
       /\ UNCHANGED <<calls, devices, tunnels, connected, registered, jobs, nextId>>

\* the same frame with get-device-packet-traces
devicesIdPacketTracesGET(id, reply) ==
  LET op == "devicesIdPacketTracesGET" IN
  IF ~devices[id].exists
  THEN /\ resp' = ReadResponse(op, id, 500, "", <<>>)
       /\ UNCHANGED <<calls, devices, tunnels, connected, registered, jobs, nextId, sent>>
  ELSE IF ~connected[id]
  THEN /\ resp' = ReadResponse(op, id, 200, "disconnected", <<>>)
       /\ UNCHANGED <<calls, devices, tunnels, connected, registered, jobs, nextId, sent>>
  ELSE /\ Len(sent) < MaxSent
       /\ sent' = deviceSendMessage(sent, id, "get-device-packet-traces")
       /\ resp' = IF ~reply.ok
                  THEN ReadResponse(op, id, 500, "", <<>>)
                  ELSE ReadResponse(op, id, 200, "connected", reply.message)
       /\ UNCHANGED <<calls, devices, tunnels, connected, registered, jobs, nextId>>

\* devicesIdRoutesGET without the test of the connection
devicesIdRoutesGET_NoConnectionCheck(id, reply) ==
  LET op == "devicesIdRoutesGET" IN
  IF ~devices[id].exists
  THEN /\ resp' = ReadResponse(op, id, 500, "", <<>>)
       /\ UNCHANGED <<calls, devices, tunnels, connected, registered, jobs, nextId, sent>>
  ELSE /\ Len(sent) < MaxSent
       /\ sent' = deviceSendMessage(sent, id, "get-device-os-routes")
       /\ resp' = IF ~reply.ok
                  THEN ReadResponse(op, id, 500, "", <<>>)
                  ELSE ReadResponse(op, id, 200, "connected", reply.message)
       /\ UNCHANGED <<calls, devices, tunnels, connected, registered, jobs, nextId>>

\* the same frame with get-device-os-routes
devicesIdRoutesGET(id, reply) ==
  LET op == "devicesIdRoutesGET" IN
  IF ~devices[id].exists
  THEN /\ resp' = ReadResponse(op, id, 500, "", <<>>)
       /\ UNCHANGED <<calls, devices, tunnels, connected, registered, jobs, nextId, sent>>
  ELSE IF ~connected[id]
  THEN /\ resp' = ReadResponse(op, id, 200, "disconnected", <<>>)
       /\ UNCHANGED <<calls, devices, tunnels, connected, registered, jobs, nextId, sent>>
  ELSE /\ Len(sent) < MaxSent
       /\ sent' = deviceSendMessage(sent, id, "get-device-os-routes")
       /\ resp' = IF ~reply.ok
                  THEN ReadResponse(op, id, 500, "", <<>>)
                  ELSE ReadResponse(op, id, 200, "connected", reply.message)
       /\ UNCHANGED <<calls, devices, tunnels, connected, registered, jobs, nextId>>

(* ---------------------------------------------------------------------- *)
(* Connection registry and device queue processing                         *)
(* ---------------------------------------------------------------------- *)
DeviceConnect(d) ==
  /\ ~connected[d]
  /\ devices[d].exists
  /\ devices[d].isApproved
  /\ connected' = [connected EXCEPT ![d] = TRUE]
  /\ UNCHANGED <<calls, sent, devices, tunnels, registered, jobs, nextId, resp>>

DeviceDisconnect(d) ==
  /\ connected[d]
  /\ connected' = [connected EXCEPT ![d] = FALSE]
  /\ UNCHANGED <<calls, sent, devices, tunnels, registered, jobs, nextId, resp>>

JobIds == 1 .. MaxJobs

ActiveJobsOf(q, machineId) ==
  { k \in DOMAIN q : q[k].machineId = machineId /\ q[k]._state = "active" }

\* CanDeliver without the check that the device is idle
CanDeliver_Busy(q, j) ==
  /\ q[j]._state = "inactive"
  /\ connected[q[j].machineId]

\* a queued job may be delivered: the device is connected and idle, and the
\* job is the oldest one waiting for that device
CanDeliver(q, j) ==
  /\ q[j]._state = "inactive"
  /\ connected[q[j].machineId]
  /\ ActiveJobsOf(q, q[j].machineId) = {}
  /\ \A k \in DOMAIN q :
       (k < j /\ q[k].machineId = q[j].machineId) => q[k]._state # "inactive"

JobDeliver(j) ==
  /\ j \in DOMAIN jobs
  /\ CanDeliver(jobs, j)
  /\ jobs' = [jobs EXCEPT ![j]._state = "active"]
  /\ UNCHANGED <<calls, sent, devices, tunnels, connected, registered, nextId, resp>>

\* the agent replied ok: the on-complete handler of the job's method runs
JobComplete(j) ==
  /\ j \in DOMAIN jobs
  /\ jobs[j]._state = "active"
  /\ jobs' = [jobs EXCEPT ![j]._state = "complete"]
  /\ devices' = IF jobs[j].response.method = "dhcp"
                THEN dhcpComplete(devices, jobs[j].response.data)
                ELSE devices
  /\ UNCHANGED <<calls, sent, tunnels, connected, registered, nextId, resp>>

\* the agent replied an error or the send timed out: on-failed runs
JobFailed(j) ==
  /\ j \in DOMAIN jobs
  /\ jobs[j]._state = "active"
  /\ jobs' = [jobs EXCEPT ![j]._state = "failed"]
  /\ devices' = IF jobs[j].response.method = "dhcp"
                THEN dhcpError(devices, jobs[j].response.data)
                ELSE devices
  /\ UNCHANGED <<calls, sent, tunnels, connected, registered, nextId, resp>>

\* the job is removed from the queue: on-removed runs with the job as it was
JobRemoved(j) ==
  /\ j \in DOMAIN jobs
  /\ jobs[j]._state # "removed"
  /\ jobs' = [jobs EXCEPT ![j]._state = "removed"]
  /\ devices' = IF jobs[j].response.method = "dhcp"
                THEN dhcpRemove(devices, jobs[j])
                ELSE devices
  /\ UNCHANGED <<calls, sent, tunnels, connected, registered, nextId, resp>>

Next ==
  \/ \E id \in Devices, fault \in DeleteFaults : devicesIdDELETE(id, fault)
  \/ \E id \in TunnelIds : tunnelsIdDELETE(id)
  \/ \E id \in DhcpDevices, req \in DhcpRequests : devicesIdDhcpPOST(id, req)
  \/ \E id \in DhcpDevices, dhcpId \in DhcpIds, force \in {"yes", "no"} :
       devicesIdDhcpDhcpIdDELETE(id, dhcpId, force)
  \/ \E id \in DhcpDevices, dhcpId \in DhcpIds, req \in DhcpRequests :
       devicesIdDhcpDhcpIdPUT(id, dhcpId, req)
  \/ \E id \in DhcpDevices, dhcpId \in DhcpIds : devicesIdDhcpDhcpIdPATCH(id, dhcpId)
  \/ \E id \in Devices : \E req \in PutRequests(id), isRunning \in BOOLEAN :
       devicesIdPUT(id, req, isRunning)
  \/ \E id \in DhcpDevices, req \in RoutePostRequests : devicesIdStaticroutesPOST(id, req)
  \/ \E id \in DhcpDevices, route \in RouteIds : devicesIdStaticroutesRouteDELETE(id, route)
  \/ \E id \in DhcpDevices : \E req \in RoutePatchRequests(id) :
       devicesIdStaticroutesRoutePATCH(id, req)
  \/ \E id \in Devices, reply \in AgentReplies : devicesIdConfigurationGET(id, reply)
  \/ \E id \in Devices, reply \in AgentReplies : devicesIdLogsGET(id, reply)
  \/ \E id \in Devices, reply \in AgentReplies : devicesIdPacketTracesGET(id, reply)
  \/ \E id \in Devices, reply \in AgentReplies : devicesIdRoutesGET(id, reply)
  \/ \E d \in Devices : DeviceConnect(d)
  \/ \E d \in Devices : DeviceDisconnect(d)
  \/ \E j \in JobIds : JobDeliver(j)
  \/ \E j \in JobIds : JobComplete(j)
  \/ \E j \in JobIds : JobFailed(j)
  \/ \E j \in JobIds : JobRemoved(j)
  \/ \E c \in Callers, id \in Devices, dhcpId \in DhcpIds, force \in {"yes", "no"} :
       DeleteFindOneAndUpdate(c, id, dhcpId, force)
  \/ \E c \in Callers : DeleteApply(c)
  \/ \E c \in Callers : DeletePull(c)
  \/ \E c \in Callers, req \in UpgradeRequests : UpgdSchedCountDocuments(c, req)
  \/ \E c \in Callers : UpgdSchedUpdateMany(c)
  \/ MigrationUp
  \/ MigrationDown

Spec == Init /\ [][Next]_vars

\* device deletion, tunnel deactivation and device modification
NextTunnels ==
  \/ \E id \in Devices, fault \in DeleteFaults : devicesIdDELETE(id, fault)
  \/ \E id \in TunnelIds : tunnelsIdDELETE(id)
  \/ \E id \in Devices : \E req \in PutRequests(id), isRunning \in BOOLEAN :
       devicesIdPUT(id, req, isRunning)
  \/ \E d \in Devices : DeviceConnect(d)
  \/ \E d \in Devices : DeviceDisconnect(d)

SpecTunnels ==
  InitWith({1}, {"none"}, [Devices -> BOOLEAN], {"complete"}) /\ [][NextTunnels]_vars

\* the DHCP requests of one device and the processing of its jobs
NextJobs ==
  \/ \E id \in DhcpDevices, req \in DhcpRequests : devicesIdDhcpPOST(id, req)
  \/ \E id \in DhcpDevices, dhcpId \in DhcpIds, force \in {"yes", "no"} :
       devicesIdDhcpDhcpIdDELETE(id, dhcpId, force)
  \/ \E id \in DhcpDevices, dhcpId \in DhcpIds, req \in DhcpRequests :
       devicesIdDhcpDhcpIdPUT(id, dhcpId, req)
  \/ \E id \in DhcpDevices, dhcpId \in DhcpIds : devicesIdDhcpDhcpIdPATCH(id, dhcpId)
  \/ \E d \in DhcpDevices : DeviceConnect(d)
  \/ \E d \in DhcpDevices : DeviceDisconnect(d)
  \/ \E j \in JobIds : JobDeliver(j)
  \/ \E j \in JobIds : JobComplete(j)
  \/ \E j \in JobIds : JobFailed(j)
  \/ \E j \in JobIds : JobRemoved(j)

SpecJobs ==
  InitWith(AgentVersions, {"none", "complete", "add-failed"},
           {[d \in Devices |-> FALSE]}, {"complete"})
    /\ [][NextJobs]_vars

\* the requests that pass through validation: device modification and DHCP
\* addition
NextValidation ==
  \/ \E id \in Devices : \E req \in PutRequests(id), isRunning \in BOOLEAN :
       devicesIdPUT(id, req, isRunning)
  \/ \E id \in DhcpDevices, req \in DhcpRequests : devicesIdDhcpPOST(id, req)

SpecValidation ==
  InitWith({1}, {"none"}, {[d \in Devices |-> FALSE]}, {"complete"})
    /\ [][NextValidation]_vars

\* the modifications of devices whose interfaces were stored in any of
\* their variants: every modification runs validateDevice
ValidatedDevices == {"d1"}

NextValidator ==
  \E id \in ValidatedDevices : \E req \in PutRequests(id), isRunning \in BOOLEAN :
    devicesIdPUT(id, req, isRunning)

SpecValidator == InitValidator /\ [][NextValidator]_vars

\* the job queues of two devices: jobs come from modifications of one device
\* and DHCP additions to the other, and are delivered, answered, timed out
\* and removed
NextQueue ==
  \/ \E id \in Devices \ DhcpDevices : \E req \in PutRequests(id), isRunning \in BOOLEAN :
       devicesIdPUT(id, req, isRunning)
  \/ \E id \in DhcpDevices, req \in ValidDhcpRequests : devicesIdDhcpPOST(id, req)
  \/ \E d \in Devices : DeviceConnect(d)
  \/ \E d \in Devices : DeviceDisconnect(d)
  \/ \E j \in JobIds : JobDeliver(j)
  \/ \E j \in JobIds : JobComplete(j)
  \/ \E j \in JobIds : JobFailed(j)
  \/ \E j \in JobIds : JobRemoved(j)

SpecQueue ==
  InitWith({1}, {"none"}, {[d \in Devices |-> FALSE]}, {"complete"})
    /\ [][NextQueue]_vars

\* the DHCP additions and removals of one device with a static route in any
\* status, and the outcome handlers of their jobs
NextHandlers ==
  \/ \E id \in DhcpDevices, req \in ValidDhcpRequests : devicesIdDhcpPOST(id, req)
  \/ \E id \in DhcpDevices, dhcpId \in DhcpIds :
       devicesIdDhcpDhcpIdDELETE(id, dhcpId, "no")
  \/ \E d \in DhcpDevices : DeviceConnect(d)
  \/ \E j \in JobIds : JobDeliver(j)
  \/ \E j \in JobIds : JobComplete(j)
  \/ \E j \in JobIds : JobFailed(j)
  \/ \E j \in JobIds : JobRemoved(j)

SpecHandlers ==
  InitWith({1}, {"none"}, {[d \in Devices |-> FALSE]}, RouteStatuses)
    /\ [][NextHandlers]_vars

\* the synchronous reads of devices that connect, disconnect and are
\* deleted, next to the DHCP additions that fill the job queue
NextReads ==
  \/ \E id \in Devices, reply \in AgentReplies : devicesIdConfigurationGET(id, reply)
  \/ \E id \in Devices, reply \in AgentReplies : devicesIdLogsGET(id, reply)
  \/ \E id \in Devices, reply \in AgentReplies : devicesIdPacketTracesGET(id, reply)
  \/ \E id \in Devices, reply \in AgentReplies : devicesIdRoutesGET(id, reply)
  \/ \E id \in DhcpDevices, req \in ValidDhcpRequests : devicesIdDhcpPOST(id, req)
  \/ \E id \in Devices : devicesIdDELETE(id, "none")
  \/ \E d \in Devices : DeviceConnect(d)
  \/ \E d \in Devices : DeviceDisconnect(d)

SpecReads ==
  InitWith({1}, {"none"}, {[d \in Devices |-> FALSE]}, {"complete"})
    /\ [][NextReads]_vars

\* the DHCP and static-route intents of one device that connects and
\* disconnects, and the processing of their jobs
NextOffline ==
  \/ \E id \in DhcpDevices, req \in ValidDhcpRequests : devicesIdDhcpPOST(id, req)
  \/ \E id \in DhcpDevices, dhcpId \in DhcpIds, force \in {"yes", "no"} :
       devicesIdDhcpDhcpIdDELETE(id, dhcpId, force)
  \/ \E id \in DhcpDevices, dhcpId \in DhcpIds : devicesIdDhcpDhcpIdPATCH(id, dhcpId)
  \/ \E id \in DhcpDevices, req \in RoutePostRequests : devicesIdStaticroutesPOST(id, req)
  \/ \E id \in DhcpDevices, route \in RouteIds : devicesIdStaticroutesRouteDELETE(id, route)
  \/ \E id \in DhcpDevices : \E req \in RoutePatchRequests(id) :
       devicesIdStaticroutesRoutePATCH(id, req)
  \/ \E d \in DhcpDevices : DeviceConnect(d)
  \/ \E d \in DhcpDevices : DeviceDisconnect(d)
  \/ \E j \in JobIds : JobDeliver(j)
  \/ \E j \in JobIds : JobComplete(j)
  \/ \E j \in JobIds : JobFailed(j)
  \/ \E j \in JobIds : JobRemoved(j)

SpecOffline ==
  InitWith({1}, {"add-failed"}, {[d \in Devices |-> FALSE]}, {"complete"})
    /\ [][NextOffline]_vars

\* the modifications of the DHCP entry a device holds, for every agent
\* version, next to additions and the processing of the jobs
NextModify ==
  \/ \E id \in DhcpDevices, dhcpId \in DhcpIds, req \in DhcpRequests :
       devicesIdDhcpDhcpIdPUT(id, dhcpId, req)
  \/ \E id \in DhcpDevices, req \in ValidDhcpRequests : devicesIdDhcpPOST(id, req)
  \/ \E d \in DhcpDevices : DeviceConnect(d)
  \/ \E j \in JobIds : JobDeliver(j)
  \/ \E j \in JobIds : JobComplete(j)
  \/ \E j \in JobIds : JobFailed(j)
  \/ \E j \in JobIds : JobRemoved(j)

SpecModify ==
  InitWith(AgentVersions, {"complete"}, {[d \in Devices |-> FALSE]}, {"complete"})
    /\ [][NextModify]_vars

\* the re-apply of the DHCP entry a device holds in any status, next to
\* additions, removals and the processing of the jobs
NextReapply ==
  \/ \E id \in DhcpDevices, dhcpId \in DhcpIds : devicesIdDhcpDhcpIdPATCH(id, dhcpId)
  \/ \E id \in DhcpDevices, req \in ValidDhcpRequests : devicesIdDhcpPOST(id, req)
  \/ \E id \in DhcpDevices, dhcpId \in DhcpIds :
       devicesIdDhcpDhcpIdDELETE(id, dhcpId, "no")
  \/ \E d \in DhcpDevices : DeviceConnect(d)
  \/ \E j \in JobIds : JobDeliver(j)
  \/ \E j \in JobIds : JobComplete(j)
  \/ \E j \in JobIds : JobFailed(j)
  \/ \E j \in JobIds : JobRemoved(j)

SpecReapply ==
  InitWith({1}, SeedStatuses, {[d \in Devices |-> FALSE]}, {"complete"})
    /\ [][NextReapply]_vars

\* removals of the DHCP entry a device holds, served at the same time, step
\* by step, next to the processing of the jobs
NextDeletes ==
  \/ \E c \in Callers, id \in DhcpDevices, dhcpId \in DhcpIds, force \in {"yes", "no"} :
       DeleteFindOneAndUpdate(c, id, dhcpId, force)
  \/ \E c \in Callers : DeleteApply(c)
  \/ \E c \in Callers : DeletePull(c)
  \/ \E d \in DhcpDevices : DeviceConnect(d)
  \/ \E j \in JobIds : JobDeliver(j)
  \/ \E j \in JobIds : JobComplete(j)
  \/ \E j \in JobIds : JobFailed(j)
  \/ \E j \in JobIds : JobRemoved(j)

SpecDeletes ==
  InitWith({0, 1}, {"complete", "add-failed", "remove-failed"},
           {[d \in Devices |-> FALSE]}, {"complete"})
    /\ [][NextDeletes]_vars

\* a device that holds two applied DHCP entries, one on each of its LAN
\* interfaces
InitTwoEntries(agents) ==
  /\ \E ag \in agents :
       devices = [d \in Devices |->
                    IF d = "d1"
                    THEN [InitDevice(d, TRUE, ag, "complete", "complete") EXCEPT
                            !.dhcp = Append(@, [_id |-> FirstFreeId, interface |-> "pci2",
                                                rangeStart |-> "10.0.1.2",
                                                rangeEnd |-> "10.0.1.20",
                                                dns |-> <<"8.8.8.8">>,
                                                macAssign |-> <<>>,
                                                status |-> "complete"])]
                    ELSE InitDevice(d, FALSE, 1, "none", "complete")]
  /\ tunnels = InitTunnels(TRUE)
  /\ connected = [d \in Devices |-> FALSE]
  /\ registered = Cardinality(Devices)
  /\ jobs = <<>>
  /\ nextId = FirstFreeId + 1
  /\ resp = NoResponse
  /\ sent = <<>>
  /\ calls = NoCalls

\* additions, modifications and removals of DHCP entries, next to the
\* processing of the jobs
NextInterfaces ==
  \/ \E id \in DhcpDevices, req \in ValidDhcpRequests : devicesIdDhcpPOST(id, req)
  \/ \E id \in DhcpDevices, dhcpId \in DhcpIds, req \in ValidDhcpRequests :
       devicesIdDhcpDhcpIdPUT(id, dhcpId, req)
  \/ \E id \in DhcpDevices, dhcpId \in DhcpIds, force \in {"yes", "no"} :
       devicesIdDhcpDhcpIdDELETE(id, dhcpId, force)
  \/ \E d \in DhcpDevices : DeviceConnect(d)
  \/ \E j \in JobIds : JobDeliver(j)
  \/ \E j \in JobIds : JobComplete(j)
  \/ \E j \in JobIds : JobFailed(j)
  \/ \E j \in JobIds : JobRemoved(j)

SpecInterfaces == InitTwoEntries({1, 2}) /\ [][NextInterfaces]_vars

\* the modify-device bodies that carry isApproved only
ApprovalRequests ==
  { [has |-> {"isApproved"}, isApproved |-> b, interfaces |-> <<>>] : b \in BOOLEAN }

\* approval and withdrawal of approval of the device that holds a DHCP
\* entry and its DHCP requests, the static-route requests of the device
\* that was never approved, and the processing of the jobs
NextApproval ==
  \/ \E id \in DhcpDevices, req \in ApprovalRequests : devicesIdPUT(id, req, FALSE)
  \/ \E id \in Devices \ DhcpDevices, req \in RoutePostRequests : devicesIdStaticroutesPOST(id, req)
  \/ \E id \in Devices \ DhcpDevices, route \in RouteIds : devicesIdStaticroutesRouteDELETE(id, route)
  \/ \E id \in Devices \ DhcpDevices : \E req \in RoutePatchRequests(id) :
       devicesIdStaticroutesRoutePATCH(id, req)
  \/ \E id \in DhcpDevices, req \in ValidDhcpRequests : devicesIdDhcpPOST(id, req)
  \/ \E id \in DhcpDevices, dhcpId \in DhcpIds, req \in ValidDhcpRequests :
       devicesIdDhcpDhcpIdPUT(id, dhcpId, req)
  \/ \E id \in DhcpDevices, dhcpId \in DhcpIds : devicesIdDhcpDhcpIdPATCH(id, dhcpId)
  \/ \E id \in DhcpDevices, dhcpId \in DhcpIds, force \in {"yes", "no"} :
       devicesIdDhcpDhcpIdDELETE(id, dhcpId, force)
  \/ \E d \in Devices : DeviceConnect(d)
  \/ \E j \in JobIds : JobDeliver(j)
  \/ \E j \in JobIds : JobComplete(j)
  \/ \E j \in JobIds : JobFailed(j)
  \/ \E j \in JobIds : JobRemoved(j)

SpecApproval ==
  InitWith({1}, {"complete", "add-failed"}, {[d \in Devices |-> FALSE]}, {"complete"})
    /\ [][NextApproval]_vars

\* upgrade schedule requests served at the same time as the deletions of
\* tunnels and devices
NextSchedule ==
  \/ \E c \in Callers, req \in UpgradeRequests : UpgdSchedCountDocuments(c, req)
  \/ \E c \in Callers : UpgdSchedUpdateMany(c)
  \/ \E id \in Devices, fault \in DeleteFaults : devicesIdDELETE(id, fault)
  \/ \E id \in TunnelIds : tunnelsIdDELETE(id)

SpecSchedule ==
  InitWith({1}, {"none"}, {[d \in Devices |-> FALSE]}, {"complete"})
    /\ [][NextSchedule]_vars

\* the PCI addresses interfaces were stored with before the migration
PciAddrs == {"", "0000:00:03.0", "0000:00:08.0"}

\* the devices as stored before the migration: each interface of d1 with a
\* PCI address of its own
InitMigration ==
  /\ \E a, b, c \in PciAddrs :
       devices = [d \in Devices |->
                    IF d = "d1"
                    THEN [InitDevice(d, TRUE, 1, "none", "complete") EXCEPT
                            !.interfaces[1].pciaddr = a,
                            !.interfaces[2].pciaddr = b,
                            !.interfaces[3].pciaddr = c]
                    ELSE InitDevice(d, FALSE, 1, "none", "complete")]
  /\ tunnels = InitTunnels(TRUE)
  /\ connected = [d \in Devices |-> FALSE]
  /\ registered = Cardinality(Devices)
  /\ jobs = <<>>
  /\ nextId = FirstFreeId
  /\ resp = NoResponse
  /\ sent = <<>>
  /\ calls = NoCalls

NextMigration == MigrationUp \/ MigrationDown

SpecMigration == InitMigration /\ [][NextMigration]_vars

(* ---------------------------------------------------------------------- *)
(* Properties                                                              *)
(* ---------------------------------------------------------------------- *)
AtMostOneActive == \A d \in Devices : Cardinality(ActiveJobsOf(jobs, d)) <= 1

DeliveredWhenIdle ==
  \A j \in DOMAIN jobs :
    (jobs[j]._state = "inactive" /\ jobs'[j]._state = "active")
      => \A k \in DOMAIN jobs :
           (k # j /\ jobs[k].machineId = jobs[j].machineId)
             => (jobs[k]._state # "active" /\ jobs'[k]._state # "active")

\* C1: for every device at most one of its jobs is active in every reachable
\* state, and a queued job becomes active only in a step in which no other
\* job of the same device is active, whatever the order of job submissions,
\* agent replies, timeouts and removals.
C1_OneActiveJobPerDevice == []AtMostOneActive /\ [][DeliveredWhenIdle]_vars

\* a connected device has an active job while another job of it waits in
\* the queue
C1_Witness ==
  /\ \E j, k \in DOMAIN jobs :
       /\ jobs[j].machineId = jobs[k].machineId
       /\ jobs[j]._state = "active"
       /\ jobs[k]._state = "inactive"
       /\ connected[jobs[j].machineId]

RefByActiveTunnel(id) ==
  \E t \in Tunnels : tunnels[t].isActive /\ id \in {tunnels[t].deviceA, tunnels[t].deviceB}

NoActiveTunnelOnDeleted ==
  \A t \in Tunnels :
    tunnels[t].isActive => (devices[tunnels[t].deviceA].exists /\ devices[tunnels[t].deviceB].exists)

DeleteRespectsTunnels ==
  \A id \in Devices, fault \in DeleteFaults :
    devicesIdDELETE(id, fault) =>
      /\ RefByActiveTunnel(id) =>
           (resp'.code = 500 /\ devices'[id] = devices[id] /\ devices' = devices)
      /\ (~RefByActiveTunnel(id) /\ devices[id].exists /\ fault = "none") =>
           (resp'.code = 204 /\ ~devices'[id].exists)

\* C2: a devicesIdDELETE step for a device that an active tunnel names as
\* deviceA or deviceB is rejected and keeps the device; a devicesIdDELETE
\* step for a stored device that no active tunnel names (all of them have
\* been deactivated by tunnelsIdDELETE), with billing and the database
\* answering, succeeds and removes the device; so in every reachable state
\* both ends of every active tunnel are stored devices.
C2_DeleteBlockedByActiveTunnels ==
  []NoActiveTunnelOnDeleted /\ [][DeleteRespectsTunnels]_vars

\* a device that tunnels named has been deleted after tunnelsIdDELETE
\* deactivated every one of them
C2_Witness ==
  \E id \in Devices :
    /\ ~devices[id].exists
    /\ resp = [op |-> "devicesIdDELETE", id |-> id, code |-> 204]
    /\ \E t \in Tunnels : id \in {tunnels[t].deviceA, tunnels[t].deviceB}
    /\ \A t \in Tunnels :
         id \in {tunnels[t].deviceA, tunnels[t].deviceB} => ~tunnels[t].isActive

FailedDeleteLeavesNoEffect ==
  \A id \in Devices, fault \in DeleteFaults :
    (devicesIdDELETE(id, fault) /\ resp'.code # 204) =>
      (devices' = devices /\ registered' = registered /\ connected' = connected)

\* C10: a devicesIdDELETE step that fails (active tunnels, device not found,
\* the license count update throwing, the remove throwing) leaves the device
\* documents, the registered-device count and the device connections as
\* they were before the request.
C10_FailedDeleteLeavesNoEffect == [][FailedDeleteLeavesNoEffect]_vars

\* the document devicesIdPUT hands to validateDevice
PutCandidate(id, deviceRequest) ==
  [devices[id] EXCEPT !.interfaces =
     IF "interfaces" \in deviceRequest.has
     THEN MergeInterfaces(@, deviceRequest.interfaces) ELSE @]

PutOrgSubnets(isRunning) ==
  IF isRunning /\ forbidLanSubnetOverlaps THEN getAllOrganiztionLanSubnets(devices) ELSE <<>>

RejectedLeavesNoTrace == jobs' = jobs /\ devices' = devices /\ resp'.code = 500

\* a step that adds a job, changes a document or does not answer 500 is not
\* the step of a request that validation rejects
ValidationRejectsCleanly ==
  ~RejectedLeavesNoTrace =>
    /\ \A id \in DhcpDevices, req \in DhcpRequests :
         ~ ( /\ resp' = [op |-> "devicesIdDhcpPOST", id |-> id, code |-> resp'.code]
             /\ devices[id].exists
             /\ devices[id].isApproved
             /\ validateDhcpRequest(devices[id], req) # ""
             /\ devicesIdDhcpPOST(id, req) )
    /\ \A id \in Devices : \A req \in PutRequests(id), isRunning \in BOOLEAN :
         ~ ( /\ resp' = [op |-> "devicesIdPUT", id |-> id, code |-> resp'.code]
             /\ devices[id].exists
             /\ ~validateDevice(PutCandidate(id, req), isRunning,
                                PutOrgSubnets(isRunning)).valid
             /\ devicesIdPUT(id, req, isRunning) )

\* C3: a devicesIdDhcpPOST step whose request validateDhcpRequest rejects,
\* and a devicesIdPUT step whose merged device validateDevice finds invalid,
\* answer 500, add no job to the queue (the dispatcher is not reached) and
\* leave every device document as it was.
C3_RejectedRequestLeavesNoJob == [][ValidationRejectsCleanly]_vars

\* the last request was a DHCP add for a stored, approved device with a
\* current agent and no DHCP entry, and it was rejected: only
\* validateDhcpRequest can have rejected it
C3_Witness ==
  \E id \in DhcpDevices :
    /\ resp = [op |-> "devicesIdDhcpPOST", id |-> id, code |-> 500]
    /\ devices[id].exists
    /\ devices[id].isApproved
    /\ getMajorVersion(devices[id].versions.agent) >= 1
    /\ devices[id].dhcp = <<>>
    /\ jobs = <<>>

\* the DHCP sub-documents of device D with id X, in the documents db
DhcpEntries(db, D, X) ==
  IF Found(db, D) THEN { db[D].dhcp[i] : i \in EntryIndex(db[D], X) } ELSE {}

IsDhcpJob(j) == j \in DOMAIN jobs /\ jobs[j].response.method = "dhcp"

OnCompleteSettlesDhcp ==
  \A j \in JobIds :
    (IsDhcpJob(j) /\ JobComplete(j)) =>
      LET D == jobs[j].response.data.deviceId
          X == jobs[j].response.data.routeId
      IN IF jobs[j].tasks[1].message = "remove-dhcp-config"
         THEN DhcpEntries(devices', D, X) = {}
         ELSE \A e \in DhcpEntries(devices', D, X) : e.status = "complete"

\* C4: a JobComplete step of a dhcp job naming device D and DHCP id X leaves
\* no DHCP sub-document X in D when the job's task is remove-dhcp-config,
\* and leaves sub-document X with status 'complete' otherwise.
C4_OnCompleteSettlesDhcp == [][OnCompleteSettlesDhcp]_vars

OnFailedMarksDhcp ==
  \A j \in JobIds :
    (IsDhcpJob(j) /\ JobFailed(j)) =>
      LET D == jobs[j].response.data.deviceId
          X == jobs[j].response.data.routeId
          st == IF jobs[j].tasks[1].message = "remove-dhcp-config"
                THEN "remove-failed" ELSE "add-failed"
      IN /\ \A e \in DhcpEntries(devices', D, X) : e.status = st
         /\ Found(devices, D) => Found(devices', D)

\* C5: a JobFailed step of a dhcp job naming device D and DHCP id X leaves
\* sub-document X with status 'remove-failed' when the job's task is
\* remove-dhcp-config and 'add-failed' when it is add-dhcp-config, and
\* keeps the device.
C5_OnFailedMarksDhcp == [][OnFailedMarksDhcp]_vars

OnRemovedMarksDhcp ==
  \A j \in JobIds :
    ( /\ IsDhcpJob(j)
      /\ jobs[j]._state \in {"inactive", "delayed", "active"}
      /\ JobRemoved(j) ) =>
      LET D == jobs[j].response.data.deviceId
          X == jobs[j].response.data.routeId
      IN \A e \in DhcpEntries(devices', D, X) : e.status = "job-deleted"

\* C6: a JobRemoved step of a dhcp job that was inactive, delayed or active
\* leaves the DHCP sub-document the job names with status 'job-deleted'
\* (so neither 'complete' nor 'add-failed').
C6_OnRemovedMarksDhcp == [][OnRemovedMarksDhcp]_vars

\* the fields a DHCP request submits
Submitted(e) ==
  [interface |-> e.interface, rangeStart |-> e.rangeStart, rangeEnd |-> e.rangeEnd,
   dns |-> e.dns, macAssign |-> e.macAssign]

AddPersistsAndQueues ==
  \A id \in DhcpDevices, req \in ValidDhcpRequests :
    ( /\ resp' = [op |-> "devicesIdDhcpPOST", id |-> id, code |-> resp'.code]
      /\ PostError(devices[id], req) = ""
      /\ devicesIdDhcpPOST(id, req) ) =>
      /\ Len(devices'[id].dhcp) = Len(devices[id].dhcp) + 1
      /\ SubSeq(devices'[id].dhcp, 1, Len(devices[id].dhcp)) = devices[id].dhcp
      /\ LET e == devices'[id].dhcp[Len(devices'[id].dhcp)]
         IN /\ Submitted(e) = req
            /\ e.status = "add-wait"
            /\ Len(jobs') = Len(jobs) + 1
            /\ LET job == jobs'[Len(jobs')]
               IN /\ job.tasks[1].message = "add-dhcp-config"
                  /\ job.response.data.routeId = e._id
                  /\ job.response.data.deviceId = id

AddOutcomeSettles ==
  \A j \in JobIds :
    (IsDhcpJob(j) /\ jobs[j].tasks[1].message = "add-dhcp-config") =>
      LET D == jobs[j].response.data.deviceId
          X == jobs[j].response.data.routeId
      IN /\ JobComplete(j) =>
              \A e \in DhcpEntries(devices, D, X) :
                [e EXCEPT !.status = "complete"] \in DhcpEntries(devices', D, X)
         /\ JobFailed(j) =>
              \A e \in DhcpEntries(devices, D, X) :
                [e EXCEPT !.status = "add-failed"] \in DhcpEntries(devices', D, X)

\* C7: a devicesIdDhcpPOST step with a valid request that passes the checks
\* appends one DHCP sub-document with the submitted fields and status
\* 'add-wait' and queues one add-dhcp-config job naming it; a JobComplete
\* step of that job leaves the sub-document with the same fields and status
\* 'complete', a JobFailed step with status 'add-failed'.
C7_AddRoundTrip == [][AddPersistsAndQueues /\ AddOutcomeSettles]_vars

\* the results and jobs a handler may be handed
HandlerResults ==
  [deviceId : Devices \cup {""},
   routeId  : 0 .. SeedDhcpId,
   message  : {"add-dhcp-config", "remove-dhcp-config", "remove-route", ""}]

HandlerJobs ==
  { [_state |-> st, response |-> [method |-> "dhcp", data |-> res]] :
      st \in {"inactive", "delayed", "active", "complete"}, res \in HandlerResults }

\* C8: in every reachable state and for every result or job a dhcp handler
\* may be handed (add and removal messages alike), the documents after
\* running complete, error or remove twice are the documents after running
\* it once.
C8_HandlersIdempotent ==
  /\ \A res \in HandlerResults :
       /\ dhcpComplete(dhcpComplete(devices, res), res) = dhcpComplete(devices, res)
       /\ dhcpError(dhcpError(devices, res), res) = dhcpError(devices, res)
  /\ \A job \in HandlerJobs :
       dhcpRemove(dhcpRemove(devices, job), job) = dhcpRemove(devices, job)

\* the handlers of dhcp jobs have run (one job complete, one failed or
\* removed), and there are results for which complete and error change
\* the documents
C8_Witness ==
  /\ \E j \in DOMAIN jobs : IsDhcpJob(j) /\ jobs[j]._state = "complete"
  /\ \E j \in DOMAIN jobs : IsDhcpJob(j) /\ jobs[j]._state \in {"failed", "removed"}
  /\ \E res \in HandlerResults : dhcpComplete(devices, res) # devices
  /\ \E res \in HandlerResults : dhcpError(devices, res) # devices

HasWaitingEntry(doc) ==
  doc.exists /\ \E i \in DOMAIN doc.dhcp : HasWait(doc.dhcp[i].status)

IsWaiting(doc, dhcpId) ==
  \E i \in EntryIndex(doc, dhcpId) : HasWait(doc.dhcp[i].status)

Refused == jobs' = jobs /\ resp'.code = 500

OneChangeAtATime ==
  \A id \in DhcpDevices :
    HasWaitingEntry(devices[id]) =>
      /\ \A req \in DhcpRequests : devicesIdDhcpPOST(id, req) => Refused
      /\ \A dhcpId \in DhcpIds :
           /\ \A req \in DhcpRequests : devicesIdDhcpDhcpIdPUT(id, dhcpId, req) => Refused
           /\ devicesIdDhcpDhcpIdPATCH(id, dhcpId) => Refused
           /\ \A force \in {"yes", "no"} :
                (~IsWaiting(devices[id], dhcpId)
                   /\ devicesIdDhcpDhcpIdDELETE(id, dhcpId, force)) => Refused

\* C9: from a state in which a DHCP entry of the device is add-wait or
\* del-wait, every devicesIdDhcpPOST, devicesIdDhcpDhcpIdPUT and
\* devicesIdDhcpDhcpIdPATCH step for the device, and every
\* devicesIdDhcpDhcpIdDELETE step naming another entry, answers 500 and adds
\* no job.
C9_OneChangeAtATime == [][OneChangeAtATime]_vars

\* the jobs that had their outcome when they were removed
FinishedJobs ==
  { [_state |-> st, response |-> [method |-> "dhcp", data |-> res]] :
      st \in {"complete", "failed", "removed"}, res \in HandlerResults }

RemoveAfterOutcomeIsInert ==
  \A job \in FinishedJobs : dhcpRemove(devices, job) = devices

OneOutcomePerJob ==
  \A j \in DOMAIN jobs :
    /\ jobs'[j].response = jobs[j].response
    /\ jobs'[j]._state # jobs[j]._state =>
         \/ jobs[j]._state = "inactive" /\ jobs'[j]._state = "active"
         \/ jobs[j]._state = "active" /\ jobs'[j]._state \in {"complete", "failed"}
         \/ jobs'[j]._state = "removed"
    /\ (jobs[j]._state \in {"complete", "failed", "removed"}
          /\ jobs'[j]._state # jobs[j]._state) => devices' = devices

StoredInterfaces(ifId) ==
  { ifc \in UNION { Range(devices[d].interfaces) : d \in { x \in Devices : devices[x].exists } } :
      ifc._id = ifId }

TunnelEndUsable(t, ifId) ==
  /\ StoredInterfaces(ifId) # {}
  /\ \A ifc \in StoredInterfaces(ifId) :
       ifc.isAssigned /\ tunnels[t].pathlabel \in ifc.pathlabels

TunnelEndsUsable ==
  \A t \in Tunnels :
    tunnels[t].isActive =>
      (TunnelEndUsable(t, tunnels[t].interfaceA) /\ TunnelEndUsable(t, tunnels[t].interfaceB))

\* the request unassigns a stored assigned interface that an active tunnel
\* ends at, or takes from it the label of such a tunnel
BreaksTunnel(id, req) ==
  /\ "interfaces" \in req.has
  /\ \E i \in DOMAIN devices[id].interfaces, k \in DOMAIN req.interfaces :
       LET orig == devices[id].interfaces[i]
           upd  == req.interfaces[k]
       IN /\ upd._id = orig._id
          /\ orig.isAssigned
          /\ \E t \in Tunnels :
               /\ tunnels[t].isActive
               /\ orig._id \in {tunnels[t].interfaceA, tunnels[t].interfaceB}
               /\ \/ ~upd.isAssigned
                  \/ (tunnels[t].pathlabel \in orig.pathlabels
                        /\ tunnels[t].pathlabel \notin upd.pathlabels)

\* a step that changes a document, adds a job or does not answer 500 is not
\* the step of a modification that breaks a tunnel
TunnelBreakingPutRefused ==
  ~RejectedLeavesNoTrace =>
    \A id \in Devices : \A req \in PutRequests(id), isRunning \in BOOLEAN :
      ~ ( /\ resp' = [op |-> "devicesIdPUT", id |-> id, code |-> resp'.code]
          /\ devices[id].exists
          /\ BreaksTunnel(id, req)
          /\ devicesIdPUT(id, req, isRunning) )

\* C12: in every reachable state both interfaces of every active tunnel are
\* stored, assigned and carry the tunnel's path label; and a devicesIdPUT
\* step whose request unassigns an interface an active tunnel ends at, or
\* removes from it the label of such a tunnel, answers 500, changes no
\* document and adds no job.
C12_TunnelInterfacesStayUsable == []TunnelEndsUsable /\ [][TunnelBreakingPutRefused]_vars

\* one tunnel was deactivated and its label taken from one of its
\* interfaces, which another tunnel, still active, ends at
C12_Witness ==
  \E t, u \in Tunnels :
    /\ tunnels[t].isActive
    /\ ~tunnels[u].isActive
    /\ tunnels[u].interfaceA \in {tunnels[t].interfaceA, tunnels[t].interfaceB}
    /\ \E ifc \in StoredInterfaces(tunnels[u].interfaceA) :
         tunnels[u].pathlabel \notin ifc.pathlabels

InterfaceIds(doc) == [i \in DOMAIN doc.interfaces |-> doc.interfaces[i]._id]

InterfacesOnlyModified ==
  \A id \in Devices : \A req \in PutRequests(id), isRunning \in BOOLEAN :
    ( /\ resp' = [op |-> "devicesIdPUT", id |-> id, code |-> resp'.code]
      /\ resp'.code \in {200, 202}
      /\ "interfaces" \in req.has
      /\ devicesIdPUT(id, req, isRunning) ) =>
      /\ InterfaceIds(devices'[id]) = InterfaceIds(devices[id])
      /\ \A i \in DOMAIN devices[id].interfaces :
           (\A k \in DOMAIN req.interfaces :
              req.interfaces[k]._id # devices[id].interfaces[i]._id)
             => devices'[id].interfaces[i] = devices[id].interfaces[i]

\* C13: a successful devicesIdPUT step whose request carries interfaces
\* leaves the device with the same interface ids in the same order; an
\* interface the request does not name keeps its values, and a request
\* entry naming no stored interface adds nothing.
C13_InterfacesOnlyModified == [][InterfacesOnlyModified]_vars

\* the last request was a successful modification that assigned the third
\* interface of a device and also carried an entry for an unknown interface
C13_Witness ==
  \E id \in Devices :
    /\ resp.op = "devicesIdPUT" /\ resp.id = id /\ resp.code \in {200, 202}
    /\ devices[id].interfaces[3].isAssigned
    /\ Len(devices[id].interfaces) = 3

\* the interface the request names is stored on the device, assigned and
\* LAN, and the MAC bindings repeat no mac, no host and no ipv4
DhcpTargetOk(doc, req) ==
  /\ \E i \in DOMAIN doc.interfaces :
       /\ doc.interfaces[i].pciaddr = req.interface
       /\ doc.interfaces[i].isAssigned
       /\ doc.interfaces[i].type = "LAN"
  /\ \A m, n \in DOMAIN req.macAssign :
       m # n => /\ req.macAssign[m].mac # req.macAssign[n].mac
                /\ req.macAssign[m].host # req.macAssign[n].host
                /\ req.macAssign[m].ipv4 # req.macAssign[n].ipv4

DhcpIntentValidated ==
  \A id \in DhcpDevices, req \in DhcpRequests :
    (devices[id].exists /\ ~DhcpTargetOk(devices[id], req)) =>
      /\ devicesIdDhcpPOST(id, req) => RejectedLeavesNoTrace
      /\ \A dhcpId \in DhcpIds :
           devicesIdDhcpDhcpIdPUT(id, dhcpId, req) => RejectedLeavesNoTrace

\* C14: a devicesIdDhcpPOST or devicesIdDhcpDhcpIdPUT step, for any agent
\* version, whose request names an interface that is not a stored, assigned
\* LAN interface of the device, or whose MAC bindings repeat a mac, host or
\* ipv4, answers 500, adds no job and changes no document.
C14_DhcpIntentValidated == [][DhcpIntentValidated]_vars

\* the assigned interfaces of a type, as a set of indices
AssignedOf(doc, type) ==
  { i \in DOMAIN doc.interfaces :
      doc.interfaces[i].isAssigned /\ doc.interfaces[i].type = type }

SubnetOf(ifc) == Subnet(ifc.IPv4, ifc.IPv4Mask)

\* two interfaces whose address ranges share an address
Overlapping(x, y) ==
  /\ Parsable(SubnetOf(x)) /\ Parsable(SubnetOf(y))
  /\ \E n \in {SubnetStart(SubnetOf(x)), SubnetStart(SubnetOf(y))} :
       /\ SubnetStart(SubnetOf(x)) <= n /\ n <= SubnetEnd(SubnetOf(x))
       /\ SubnetStart(SubnetOf(y)) <= n /\ n <= SubnetEnd(SubnetOf(y))

HasLanOverlap(doc) ==
  \E i, j \in AssignedOf(doc, "LAN") :
    i # j /\ Overlapping(doc.interfaces[i], doc.interfaces[j])

AssignedDisjoint(doc) ==
  \A i, j \in AssignedOf(doc, "LAN") \cup AssignedOf(doc, "WAN") :
    i # j => ~Overlapping(doc.interfaces[i], doc.interfaces[j])

OverlapErrors ==
  {"WAN and LAN IP addresses have an overlap", "The device has a LAN subnet overlap"}

\* C15: validateDevice finds invalid every stored device with two assigned
\* LAN interfaces whose subnets overlap, and gives no overlap error for a
\* device whose assigned subnets are pairwise disjoint.
C15_LanOverlapRejected ==
  \A d \in Devices :
    devices[d].exists =>
      /\ HasLanOverlap(devices[d]) => ~validateDevice(devices[d], FALSE, <<>>).valid
      /\ AssignedDisjoint(devices[d]) =>
           validateDevice(devices[d], FALSE, <<>>).err \notin OverlapErrors

\* an assigned LAN interface of d overlaps an assigned LAN interface of
\* another stored device
OverlapsOtherDevice(d) ==
  \E e \in Devices \ {d} :
    /\ devices[e].exists
    /\ \E i \in AssignedOf(devices[d], "LAN"), k \in AssignedOf(devices[e], "LAN") :
         Overlapping(devices[d].interfaces[i], devices[e].interfaces[k])

\* every LAN subnet in use in the organization can be parsed
OrgSubnetsParsable ==
  \A e \in Devices :
    devices[e].exists =>
      \A k \in AssignedOf(devices[e], "LAN") : Parsable(SubnetOf(devices[e].interfaces[k]))

\* C16: for a stored device that passes the device-level checks, validateDevice
\* with checkOverlap=true and the LAN subnets in use in the organization
\* returns valid=false exactly when one of its assigned LAN subnets overlaps
\* (identical subnets included) an assigned LAN subnet of another device;
\* its own stored subnets never make it invalid.
C16_OrgOverlapRejected ==
  \A d \in Devices :
    ( /\ devices[d].exists
      /\ OrgSubnetsParsable
      /\ validateDevice(devices[d], FALSE, <<>>).valid ) =>
      ( ~validateDevice(devices[d], TRUE, getAllOrganiztionLanSubnets(devices)).valid
          <=> OverlapsOtherDevice(d) )

\* the assigned interfaces of a device, of any type
Assigned(doc) == { i \in DOMAIN doc.interfaces : doc.interfaces[i].isAssigned }

\* the conditions of a startable device, over its assigned interfaces
Startable(doc) ==
  LET ifc(i) == doc.interfaces[i] IN
  /\ AssignedOf(doc, "WAN") # {}
  /\ AssignedOf(doc, "LAN") # {}
  /\ \A i \in Assigned(doc) :
       /\ ifc(i).type \in {"WAN", "LAN"}
       /\ isIPv4(ifc(i).IPv4)
       /\ ifc(i).IPv4Mask # ""
  /\ \A i \in AssignedOf(doc, "LAN") :
       ifc(i).gateway = NoIP /\ ifc(i).pathlabels = {}
  /\ \A i \in AssignedOf(doc, "WAN") :
       isIPv4(ifc(i).gateway) /\ ifc(i).routing # "OSPF"
  /\ \A w \in AssignedOf(doc, "WAN"), l \in AssignedOf(doc, "LAN") :
       ~Overlapping(ifc(w), ifc(l))

\* the device without its unassigned interfaces
AssignedOnly(doc) ==
  [doc EXCEPT !.interfaces = SelectSeq(doc.interfaces, LAMBDA i : i.isAssigned)]

ReadOps ==
  {"devicesIdConfigurationGET", "devicesIdLogsGET",
   "devicesIdPacketTracesGET", "devicesIdRoutesGET"}

\* a step of one of the synchronous reads of device id, the agent replying
\* reply when it is asked
SyncRead(id, reply) ==
  \/ devicesIdConfigurationGET(id, reply)
  \/ devicesIdLogsGET(id, reply)
  \/ devicesIdPacketTracesGET(id, reply)
  \/ devicesIdRoutesGET(id, reply)

SyncReadContract ==
  \A id \in Devices, reply \in AgentReplies :
    (devices[id].exists /\ SyncRead(id, reply)) =>
      /\ ~connected[id] =>
           /\ resp'.code = 200
           /\ resp'.status = "disconnected"
           /\ resp'.data = <<>>
           /\ sent' = sent
           /\ jobs' = jobs
      /\ (connected[id] /\ ~reply.ok) =>
           /\ resp'.code >= 400
           /\ resp'.status # "connected"
           /\ UNCHANGED <<devices, tunnels, registered, jobs, nextId>>

\* C18: a synchronous read of a device that is not connected answers with a
\* success payload of status 'disconnected' and empty data, sends no
\* message and creates no job; a read of a connected device whose agent
\* replies ok:false is rejected and changes nothing that is persisted.
C18_SyncReadContract == [][SyncReadContract]_vars

\* C18 witness: a read was answered 'disconnected' for a device that has a
\* queued job and was sent a message by an earlier read
C18_Witness ==
  /\ resp.op \in ReadOps
  /\ resp.status = "disconnected"
  /\ ~connected[resp.id]
  /\ \E j \in DOMAIN jobs : jobs[j].machineId = resp.id
  /\ \E k \in DOMAIN sent : sent[k].machineId = resp.id

\* the step appends one job for device id to the queue, waiting
QueuesJobFor(id) ==
  /\ Len(jobs') = Len(jobs) + 1
  /\ SubSeq(jobs', 1, Len(jobs)) = jobs
  /\ jobs'[Len(jobs')].machineId = id
  /\ jobs'[Len(jobs')]._state = "inactive"

\* the entry dhcpId of device id is stored and not already being deleted
Deletable(id, dhcpId) ==
  \E e \in DhcpEntries(devices, id, dhcpId) : e.status # "del-wait"

\* an intent that passes the checks of its handler while the device is not
\* connected queues its job
QueuedWhileUnreachable ==
  \A id \in DhcpDevices :
    ~connected[id] =>
      /\ \A req \in ValidDhcpRequests :
           ( /\ resp'.op = "devicesIdDhcpPOST"
             /\ PostError(devices[id], req) = ""
             /\ devicesIdDhcpPOST(id, req) ) => QueuesJobFor(id)
      /\ \A dhcpId \in DhcpIds, force \in {"yes", "no"} :
           ( /\ resp'.op = "devicesIdDhcpDhcpIdDELETE"
             /\ Deletable(id, dhcpId)
             /\ devicesIdDhcpDhcpIdDELETE(id, dhcpId, force) ) => QueuesJobFor(id)
      /\ \A dhcpId \in DhcpIds :
           ( /\ resp'.op = "devicesIdDhcpDhcpIdPATCH"
             /\ resp'.code = 202
             /\ devicesIdDhcpDhcpIdPATCH(id, dhcpId) ) => QueuesJobFor(id)
      /\ \A req \in RoutePostRequests :
           ( /\ resp'.op = "devicesIdStaticroutesPOST"
             /\ resp'.code = 201
             /\ devicesIdStaticroutesPOST(id, req) ) => QueuesJobFor(id)
      /\ \A route \in RouteIds :
           ( /\ resp'.op = "devicesIdStaticroutesRouteDELETE"
             /\ resp'.code = 204
             /\ devicesIdStaticroutesRouteDELETE(id, route) ) => QueuesJobFor(id)
      /\ \A req \in RoutePatchRequests(id) :
           ( /\ resp'.op = "devicesIdStaticroutesRoutePATCH"
             /\ resp'.code = 200
             /\ devicesIdStaticroutesRoutePATCH(id, req) ) => QueuesJobFor(id)

\* a waiting job leaves the queue only by delivery to its device, connected
\* and without an active job, or by removal
WaitsForDevice ==
  \A j \in DOMAIN jobs :
    jobs[j]._state = "inactive" =>
      /\ jobs'[j]._state \in {"inactive", "active", "removed"}
      /\ jobs'[j]._state = "active" =>
           /\ connected[jobs[j].machineId]
           /\ ActiveJobsOf(jobs, jobs[j].machineId) = {}

\* C19: a DHCP or static-route intent (add, delete, re-apply) accepted for a
\* device that is not connected queues a job, and a queued job is not
\* completed or failed, nor delivered, before its device is connected and
\* has no active job.
C19_UnreachableStillQueues == [][QueuedWhileUnreachable /\ WaitsForDevice]_vars

\* C19 witness: a static-route intent was accepted for a device that is not
\* connected and its job waits, after a DHCP job of the device was delivered
\* and completed while it was connected
C19_Witness ==
  /\ resp.op = "devicesIdStaticroutesPOST" /\ resp.code = 201
  /\ ~connected[resp.id]
  /\ Len(jobs) = 2
  /\ jobs[2].machineId = resp.id
  /\ jobs[2]._state = "inactive"
  /\ jobs[2].response.method = "staticroutes"
  /\ jobs[1].response.method = "dhcp"
  /\ jobs[1]._state = "complete"

\* the step appends exactly one job, of the given method, for device id
QueuesOne(id, method) ==
  /\ QueuesJobFor(id)
  /\ jobs'[Len(jobs')].response.method = method

\* the request differs from the stored definition of the entry
ChangesDefinition(id, dhcpId, req) ==
  \A e \in DhcpEntries(devices, id, dhcpId) : Submitted(e) # req

ModifyQueuesOneJob ==
  \A id \in DhcpDevices, dhcpId \in DhcpIds, req \in DhcpRequests :
    ( /\ resp'.op = "devicesIdDhcpDhcpIdPUT"
      /\ DhcpChangeError(devices[id], dhcpId) = ""
      /\ ChangesDefinition(id, dhcpId, req)
      /\ devicesIdDhcpDhcpIdPUT(id, dhcpId, req) ) =>
      LET major == devices[id].versions.agent[1]
          valid == validateDhcpRequest(devices[id], PutBody(dhcpId, req)) = ""
      IN /\ major = 0 => (resp'.code = 500 /\ jobs' = jobs)
         /\ (major = 1 /\ valid) => (resp'.code = 202 /\ QueuesOne(id, "dhcp"))
         /\ (major = 1 /\ ~valid) => (resp'.code = 500 /\ jobs' = jobs)
         /\ major >= 2 =>
              /\ resp'.code = 202
              /\ QueuesOne(id, "modify")
              /\ \A e \in DhcpEntries(devices', id, dhcpId) : Submitted(e) = req

\* dhcp.apply for an agent of major version 0 throws and leaves the queue
ApplyThrowsForVersionZero ==
  \A id \in DhcpDevices, req \in DhcpRequests, action \in {"add", "modify", "del"} :
    (devices[id].exists /\ devices[id].versions.agent[1] = 0) =>
      dhcpApply(jobs, id, devices[id],
                [interface |-> req.interface, rangeStart |-> req.rangeStart,
                 rangeEnd |-> req.rangeEnd, dns |-> req.dns,
                 macAssign |-> req.macAssign, method |-> "dhcp",
                 _id |-> SeedDhcpId, action |-> action])
        = [threw |-> TRUE, jobs |-> jobs]

OnlyDhcpEntryChanged(db, D, X) ==
  \A d \in Devices :
    IF d # D \/ ~devices[d].exists THEN db[d] = devices[d]
    ELSE /\ db[d].exists
         /\ [db[d] EXCEPT !.dhcp = <<>>] = [devices[d] EXCEPT !.dhcp = <<>>]
         /\ SelectSeq(db[d].dhcp, LAMBDA e : e._id # X)
              = SelectSeq(devices[d].dhcp, LAMBDA e : e._id # X)

\* the results a dhcp job may carry: the id is the id of a DHCP entry,
\* stored or not, and any of the fields may be missing
DhcpHandlerResults ==
  [deviceId : Devices \cup {""},
   routeId  : DhcpIds \cup {0},
   message  : {"add-dhcp-config", "remove-dhcp-config", ""}]

DhcpHandlerJobs ==
  { [_state |-> st, response |-> [method |-> "dhcp", data |-> res]] :
      st \in {"inactive", "delayed", "active", "complete", "failed"},
      res \in DhcpHandlerResults }

\* the result names nothing a handler could write: a field is missing or no
\* DHCP entry of the device has the id
NamesNoEntry(res) ==
  InvalidResult(res) \/ DhcpEntries(devices, res.deviceId, res.routeId) = {}

SingleAttempt ==
  \A j \in DOMAIN jobs : IsDhcpJob(j) => jobs[j].attempts = 1

\* the queue's own steps and the connection of a device create no job
NoAutomaticDispatch ==
  /\ \A j \in JobIds :
       (JobDeliver(j) \/ JobComplete(j) \/ JobFailed(j) \/ JobRemoved(j)) =>
         Len(jobs') = Len(jobs)
  /\ \A d \in Devices : DeviceConnect(d) => jobs' = jobs

\* a re-apply queues a job only for an entry in add-failed, re-sending the
\* addition, or in remove-failed, re-sending the removal, and is rejected
\* with nothing changed for an entry in any other status
ReapplyOnlyFailed ==
  \A id \in DhcpDevices, dhcpId \in DhcpIds :
    ( /\ resp'.op = "devicesIdDhcpDhcpIdPATCH"
      /\ devicesIdDhcpDhcpIdPATCH(id, dhcpId) ) =>
      /\ jobs' # jobs =>
           /\ QueuesOne(id, "dhcp")
           /\ \E e \in DhcpEntries(devices, id, dhcpId) :
                \/ /\ e.status = "add-failed"
                   /\ jobs'[Len(jobs')].tasks[1].message = "add-dhcp-config"
                \/ /\ e.status = "remove-failed"
                   /\ jobs'[Len(jobs')].tasks[1].message = "remove-dhcp-config"
           /\ jobs'[Len(jobs')].response.data.routeId = dhcpId
      /\ (\A e \in DhcpEntries(devices, id, dhcpId) :
            e.status \notin {"add-failed", "remove-failed"}) =>
           /\ resp'.code = 500
           /\ UNCHANGED <<devices, jobs>>

\* C22: every dhcp job has attempts = 1, no step of the queue or of the
\* connection registry creates a job, and devicesIdDhcpDhcpIdPATCH creates
\* one only for an entry in add-failed (an addition) or remove-failed (a
\* removal) and rejects every other status.
C22_NoSilentRetry ==
  []SingleAttempt /\ [][NoAutomaticDispatch /\ ReapplyOnlyFailed]_vars

\* C22 witness: the job of a re-apply of an entry in remove-failed has
\* failed, the entry was re-applied again by the operator, and the queue
\* holds nothing beyond the jobs of the two requests
C22_Witness ==
  /\ resp.op = "devicesIdDhcpDhcpIdPATCH" /\ resp.code = 202
  /\ \E e \in DhcpEntries(devices, resp.id, SeedDhcpId) : e.status = "remove-failed"
  /\ Len(jobs) = 2
  /\ jobs[1]._state = "failed"
  /\ jobs[1].tasks[1].message = "remove-dhcp-config"
  /\ jobs[2]._state = "inactive"
  /\ jobs[2].tasks[1].message = "remove-dhcp-config"

WaitEndsWithJob ==
  \A j \in JobIds :
    ( /\ IsDhcpJob(j)
      /\ jobs[j]._state \in {"inactive", "active"}
      /\ (JobComplete(j) \/ JobFailed(j) \/ JobRemoved(j)) ) =>
      \A e \in DhcpEntries(devices', jobs[j].response.data.deviceId,
                           jobs[j].response.data.routeId) :
        ~HasWait(e.status)

\* C23: when the job of a DHCP entry completes, fails or is removed, the
\* entry is no longer in add-wait or del-wait, so the device is not held by
\* the check 'Only one device change is allowed at any time' after the job
\* has ended.
C23_WaitEndsWithJob == [][WaitEndsWithJob]_vars

\* a job of the DHCP entry X of device D waits in the queue or is at the device
HasPendingJob(D, X) ==
  \E j \in DOMAIN jobs :
    /\ IsDhcpJob(j)
    /\ jobs[j].response.data.deviceId = D
    /\ jobs[j].response.data.routeId = X
    /\ jobs[j]._state \in {"inactive", "active"}

\* C24: in every reachable state, a DHCP entry in add-wait or del-wait has a
\* job that is queued or active; in particular no entry is left in a wait
\* status without a job when dhcp.apply throws after the status was stored.
C24_WaitingEntryHasJob ==
  \A d \in DhcpDevices :
    devices[d].exists =>
      \A i \in DOMAIN devices[d].dhcp :
        HasWait(devices[d].dhcp[i].status) => HasPendingJob(d, devices[d].dhcp[i]._id)

\* the delete jobs created for entry X of device D
DeleteJobsOf(D, X) ==
  { j \in DOMAIN jobs :
      /\ IsDhcpJob(j)
      /\ jobs[j].response.data.deviceId = D
      /\ jobs[j].response.data.routeId = X
      /\ jobs[j].response.data.message = "remove-dhcp-config" }

\* the removals of entry X in progress that were handed an entry not yet in
\* del-wait, and so will dispatch
DeletesAboutToDispatch(D, X) ==
  { c \in Callers :
      /\ calls[c].pc = "apply"
      /\ calls[c].id = D
      /\ calls[c].dhcpId = X
      /\ \E i \in EntryIndex(calls[c].device, X) :
           calls[c].device.dhcp[i].status # "del-wait" }

AtMostOneDeleteJob ==
  \A d \in DhcpDevices, x \in DhcpIds :
    Cardinality(DeleteJobsOf(d, x)) + Cardinality(DeletesAboutToDispatch(d, x)) <= 1

\* a removal that was handed an entry already in del-wait creates no job
SecondObserverSkips ==
  \A c \in Callers :
    (/\ calls[c].pc = "apply"
     /\ calls'[c].pc # "apply"
     /\ \A i \in EntryIndex(calls[c].device, calls[c].dhcpId) :
          calls[c].device.dhcp[i].status = "del-wait")
      => jobs' = jobs

\* C25: of the removals of one DHCP entry, repeated or served at the same
\* time, only the one that is handed the entry in a status other than
\* del-wait creates a delete job, so the entry never has two delete jobs
C25_OneDeleteJob == []AtMostOneDeleteJob /\ [][SecondObserverSkips]_vars

\* two removals of the same entry are in progress together, and one delete
\* job exists once both have passed the dispatch
C25_Witness ==
  /\ Cardinality(DeleteJobsOf("d1", SeedDhcpId)) = 1
  /\ \A c \in Callers : calls[c].pc = "pull" /\ calls[c].dhcpId = SeedDhcpId

\* the dhcp jobs that had completed or failed when they were removed
JobsWithOutcome ==
  { [_state |-> st, response |-> [method |-> "dhcp", data |-> res]] :
      st \in {"complete", "failed"}, res \in HandlerResults }

LateRemoveWritesNothing ==
  \A job \in JobsWithOutcome : dhcpRemove(devices, job) = devices

\* the step that removes a job which had completed or failed
LateRemoveKeepsStatus ==
  \A j \in DOMAIN jobs :
    (/\ IsDhcpJob(j)
     /\ jobs[j]._state \in {"complete", "failed"}
     /\ jobs'[j]._state = "removed")
      => /\ devices' = devices
         /\ \A d \in DhcpDevices : \A i \in DOMAIN devices'[d].dhcp :
              devices'[d].dhcp[i].status # "job-deleted"
         /\ UNCHANGED <<tunnels, connected, registered, nextId>>

\* C26: the removal of a dhcp job that had completed or failed changes no
\* stored document: no status becomes job-deleted, whatever entry or route
\* the job names
C26_LateRemoveIsInert == []LateRemoveWritesNothing /\ [][LateRemoveKeepsStatus]_vars

\* a dhcp job has failed and another was removed, the entry of the failed
\* job is stored, and a removal that ignored the state of the job would
\* write
C26_Witness ==
  /\ \E j, k \in DOMAIN jobs :
       /\ IsDhcpJob(j) /\ jobs[j]._state = "failed"
       /\ EntryIndex(devices[jobs[j].response.data.deviceId],
                     jobs[j].response.data.routeId) # {}
       /\ IsDhcpJob(k) /\ jobs[k]._state = "removed"
  /\ \E job \in JobsWithOutcome :
       dhcpRemove_Always(devices, job) # devices
\* C27: in every reachable state no two DHCP entries of a device name the
\* same interface
C27_OneEntryPerInterface ==
  \A d \in DhcpDevices :
    devices[d].exists =>
      \A i, k \in DOMAIN devices[d].dhcp :
        i # k => devices[d].dhcp[i].interface # devices[d].dhcp[k].interface
\* a step of a request: it leaves every job of the queue as it was
RequestStep == \A j \in DOMAIN jobs : j \in DOMAIN jobs' /\ jobs'[j] = jobs[j]

UnapprovedIsFrozen ==
  \A d \in Devices :
    (devices[d].exists /\ ~devices[d].isApproved /\ RequestStep)
      => \/ devices'[d].isApproved
         \/ /\ devices'[d] = devices[d]
            /\ \A j \in DOMAIN jobs' \ DOMAIN jobs :
                 jobs'[j].response.data.deviceId # d

\* C28: from a state in which a device is not approved, a request either
\* approves it or leaves its document as it was and creates no job for it
C28_UnapprovedIsFrozen == [][UnapprovedIsFrozen]_vars
Scheduled(db, ids, t) ==
  \A d \in Range(ids) :
    /\ d \in DOMAIN db
    /\ db[d].exists
    /\ db[d].upgradeSchedule = [time |-> t, jobQueued |-> FALSE]

AllFound(db, ids) == \A d \in Range(ids) : d \in DOMAIN db /\ db[d].exists

\* a request naming a device that is not found is rejected and changes
\* nothing; a request whose devices are all found is not rejected
RejectedIffNotFound ==
  \A c \in Callers, req \in UpgradeRequests :
    UpgdSchedCountDocuments(c, req) =>
      /\ devices' = devices
      /\ AllFound(devices, req.devices) <=> calls'[c].pc = "updateMany"

\* the request ends with every requested device scheduled, or none changed
EveryDeviceOrNone ==
  \A c \in Callers :
    (calls[c].pc = "updateMany" /\ UpgdSchedUpdateMany(c)) =>
      \/ Scheduled(devices', calls[c].request.devices, calls[c].request.date)
      \/ devices' = devices

\* C29: devicesUpgdSchedPOST rejects a request, changing nothing, exactly
\* when a requested device is not found, and otherwise ends with every
\* requested device holding the requested schedule, also when devices are
\* deleted meanwhile and when an id is listed twice
C29_ScheduleAllOrNone == [][RejectedIffNotFound /\ EveryDeviceOrNone]_vars
\* the interfaces as stored before up ran: pciaddr, and no devId
NotMigrated(interfaces) ==
  \A n \in DOMAIN interfaces :
    "pciaddr" \in DOMAIN interfaces[n] /\ "devId" \notin DOMAIN interfaces[n]

\* C30: for the interfaces of every device as stored before the migration,
\* down after up gives every interface its original pciaddr and leaves no
\* devId key, and up after up gives the interfaces of up
C30_DownUndoesUp ==
  \A d \in Devices :
    (devices[d].exists /\ NotMigrated(devices[d].interfaces)) =>
      LET x == devices[d].interfaces IN
      /\ \A n \in DOMAIN x :
           /\ "devId" \notin DOMAIN down(up(x))[n]
           /\ down(up(x))[n].pciaddr = x[n].pciaddr
      /\ up(up(x)) = up(x)
====
